---- MODULE Spec2Model ----
(***************************************************************************)
(* Template cache synchronisation and content filling of linear-cli.       *)
(*                                                                         *)
(* Strings whose characters the code inspects (template names, file names, *)
(* template bodies) are sequences of one-character strings.  Go maps are   *)
(* functions whose DOMAIN is the key set.                                  *)
(***************************************************************************)
EXTENDS Integers, Sequences, FiniteSets, TLC

\* ------------------------------------------------------------------ bounds
MaxCatalog == 2     \* longest remote catalog of a team
MaxIssues == 2      \* tracker records created per behaviour

\* --------------------------------------------------------------- universe
Teams == {"T1"}
TeamOrder == <<"T1">>
TeamID == [t \in {"T1", "T2"} |-> <<"team", t>>]

NameAB == <<"A", " ", "b">>
NameA_B == <<"a", "_", "b">>
NameSp == <<"S", "p">>
Names == {NameAB, NameA_B, NameSp}
\* A template id belongs to one template; the template named NameAB can be
\* replaced by another of the same name.
TemplateIDs == [n \in Names |-> IF n = NameAB THEN {"i1", "i2"}
                                ELSE IF n = NameA_B THEN {"i3"} ELSE {"i4"}]

\* --------------------------------------------------------- string helpers
Uppers == <<"A","B","C","D","E","F","G","H","I","J","K","L","M",
            "N","O","P","Q","R","S","T","U","V","W","X","Y","Z">>
Lowers == <<"a","b","c","d","e","f","g","h","i","j","k","l","m",
            "n","o","p","q","r","s","t","u","v","w","x","y","z">>
Digits == {"0","1","2","3","4","5","6","7","8","9"}
Range(s) == {s[i] : i \in DOMAIN s}

ToLowerChar(c) ==
    IF \E i \in DOMAIN Uppers : Uppers[i] = c
    THEN Lowers[CHOOSE i \in DOMAIN Uppers : Uppers[i] = c]
    ELSE c
ToLower(s) == [i \in DOMAIN s |-> ToLowerChar(s[i])]
ReplaceAll(s, old, new) == [i \in DOMAIN s |-> IF s[i] = old THEN new ELSE s[i]]

RECURSIVE TrimLeftChars(_, _)
TrimLeftChars(s, cut) ==
    IF s # <<>> /\ Head(s) \in cut THEN TrimLeftChars(Tail(s), cut) ELSE s
RECURSIVE TrimRightChars(_, _)
TrimRightChars(s, cut) ==
    IF s # <<>> /\ s[Len(s)] \in cut
    THEN TrimRightChars(SubSeq(s, 1, Len(s) - 1), cut) ELSE s
Trim(s, cut) == TrimRightChars(TrimLeftChars(s, cut), cut)

\* ------------------------------------------------------------ map helpers
EmptyMap == [x \in {} |-> x]
MapPut(m, k, v) == [x \in (DOMAIN m) \cup {k} |-> IF x = k THEN v ELSE m[x]]
MapDel(m, ks) == [x \in (DOMAIN m) \ ks |-> m[x]]

\* ------------------------------------------------------- sanitizeFilename
IsStemChar(c) == c \in Range(Lowers) \/ c \in Digits \/ c = "-"
\* A stem that would keep its outer hyphens, to compare against
sanitizeFilenameUntrimmed(name) ==
    SelectSeq(ReplaceAll(ReplaceAll(ToLower(name), " ", "-"), "_", "-"), IsStemChar)
sanitizeFilename(name) ==
    LET hy == ReplaceAll(ReplaceAll(ToLower(name), " ", "-"), "_", "-")
    IN  Trim(SelectSeq(hy, IsStemChar), {"-"})
FilenameOf(name) == sanitizeFilename(name) \o <<".", "m", "d">>

\* ------------------------------------------------------------------ state
VARIABLES
    catalog,    \* remote: team -> sequence of [ID, Name] catalog entries
    issues,     \* remote: number of tracker records created so far
    meta,       \* disk: the index document .metadata.json, or NoMeta
    files,      \* disk: team -> (filename -> content) of the team directory
    last,       \* observation of the last command: what it saw and did
    fill,       \* a fillTemplate call: its arguments, then also its outcome
    sect,       \* a fillTemplateSectionsDynamically call, likewise
    ttl,        \* a title-prefix application: template body and title, then outcome
    san,        \* a sanitizeFilename call: the name, then the stem
    rsv,        \* a create / preview command resolving a template, then its I/O
    pick,       \* a catalog name lookup of preview, then the entry picked
    look,       \* a GetLocalTemplate call: team key and name, then what it returned
    gql,        \* a Client.do call: the GraphQL document, then what was sent
    ai,         \* a createIssueAIFriendly run: its arguments, then its calls and result
    procs       \* the sync / clean invocations in flight, each with the index it loaded

syncVars == <<catalog, issues, meta, files, last>>
Idle == [pc |-> "idle"]

\* The index document: absent (os.ReadFile fails), or a TemplateMetadata.
NoMeta == [exists |-> FALSE]
MetaDoc(templates, lastSync) ==
    [exists |-> TRUE, Templates |-> templates, LastSync |-> lastSync]
NoCmd == [cmd |-> "none"]
NoRef == <<>>       \* RefIssueID "" of a TemplateInfo

\* time.Time values are kept relative to the command that is running: the
\* zero time, a time before the command started, or time.Now() of the command.
ZeroTime == "zero"
Past == "past"
Now == "now"
AgeTime(x) == IF x = Now THEN Past ELSE x
AgeInfo(info) == [info EXCEPT !.LastSync = AgeTime(@)]
AgeTeam(tt) ==
    [tt EXCEPT !.LastSync = AgeTime(@),
               !.Templates = [n \in DOMAIN tt.Templates |-> AgeInfo(tt.Templates[n])]]
AgeMeta(m) ==
    IF m.exists
    THEN [m EXCEPT !.LastSync = AgeTime(@),
                   !.Templates = [t \in DOMAIN m.Templates |-> AgeTeam(m.Templates[t])]]
    ELSE m

\* The n-th record the tracker created, from template tid: the tracker keeps
\* its title and the description it rendered from the template.
IssueID(n, tid, name) == <<"issue", n, tid, name>>

\* Body the tracker renders into a record created from a template.
RemoteBody(id) == IF id = "i2" THEN <<>> ELSE <<"B", id>>
RefTitle(name) == <<"[TEMPLATE-REF] ">> \o name
IssueByID(id) == [ID |-> id, Description |-> RemoteBody(id[3])]
PlaceholderBody(name) == <<"#", " ">> \o name \o <<"\n", "\n", "(No template content available)">>

\* The tracker lists a team's templates in one fixed order, and a name once.
NameOrder == <<NameAB, NameA_B, NameSp>>
NameRank(n) == CHOOSE i \in DOMAIN NameOrder : NameOrder[i] = n
NoDupNames(cat) ==
    \A i, j \in DOMAIN cat : i < j => NameRank(cat[i].Name) < NameRank(cat[j].Name)
CatalogEntries == {e \in [ID : UNION {TemplateIDs[n] : n \in Names}, Name : Names] :
                     e.ID \in TemplateIDs[e.Name]}
RECURSIVE SeqsUpTo(_, _)
SeqsUpTo(S, n) ==
    IF n = 0 THEN {<<>>}
    ELSE LET shorter == SeqsUpTo(S, n - 1)
         IN  shorter \cup {Append(s, x) : s \in {q \in shorter : Len(q) = n - 1}, x \in S}
Catalogs == {c \in SeqsUpTo(CatalogEntries, MaxCatalog) : NoDupNames(c)}

\* ----------------------------------------------------------------- remote
\* What one command's collaborators do: listDown makes every catalog query
\* of ListIssueTemplatesForTeam fail; mkdirFail makes os.MkdirAll of the team
\* directory fail; a name in fetchFail / createFail / writeFail has its issue
\* query / issueCreate mutation / os.WriteFile fail.  Only the combinations
\* that can make a difference are enumerated: a record is fetched only when
\* its id is cached (refs), created only when none was fetched, and a body is
\* written only when a record was obtained.
Envs(names, refs) ==
    {e \in [listDown : BOOLEAN, mkdirFail : BOOLEAN, fetchFail : SUBSET (names \cap refs),
            createFail : SUBSET names, writeFail : SUBSET names] :
        /\ e.createFail \subseteq (names \ refs) \cup e.fetchFail
        /\ e.writeFail \cap e.createFail = {}
        /\ (e.listDown \/ e.mkdirFail) =>
              (e.fetchFail = {} /\ e.createFail = {} /\ e.writeFail = {})
        /\ ~(e.listDown /\ e.mkdirFail)}

\* ListIssueTemplatesForTeam: each query's error falls through to the next
\* one and the last statement is `return nil, nil`.
ListIssueTemplatesForTeam(t, env) ==
    [templates |-> IF env.listDown THEN <<>> ELSE catalog[t], err |-> FALSE]

\* ------------------------------------------------------ syncSingleTemplate
\* w is the running state of one syncTeamTemplatesIntelligent call:
\*   tt      teamTemplates (the TeamTemplates being built)
\*   dir     the team directory, filename -> content
\*   iss     the tracker's records
\*   created, fetched, wrote, upserted, failed: what the call did so far
fileExists(dir, filename) == filename \in DOMAIN dir

\* A syncSingleTemplate that would create a record whether or not one was
\* fetched, to compare against.
mustCreateAlways(reused) == TRUE

\* line 531: a record is created only when none was fetched
mustCreate(reused) == ~reused

syncSingleTemplate(w, t, template, env) ==
    LET name == template.Name
        exists == name \in DOMAIN w.tt.Templates
        tryReuse == exists /\ w.tt.Templates[name].RefIssueID # NoRef
        reused == tryReuse /\ name \notin env.fetchFail
        w1 == IF tryReuse
              THEN [w EXCEPT !.fetchTried = @ \cup {name},
                             !.fetched = IF reused THEN @ \cup {name} ELSE @]
              ELSE w
    IN
    IF mustCreate(reused) /\ name \in env.createFail
    THEN [w1 EXCEPT !.failed = @ \cup {name}]
    ELSE
    LET input == [TeamID |-> TeamID[t], TemplateID |-> template.ID,
                  Title |-> RefTitle(name)]
        w2 == IF mustCreate(reused)
              THEN [w1 EXCEPT !.iss = @ + 1, !.created = @ \cup {input}]
              ELSE w1
        refIssue == IF mustCreate(reused)
                    THEN IssueByID(IssueID(w2.iss, template.ID, name))
                    ELSE IssueByID(w.tt.Templates[name].RefIssueID)
        refID == refIssue.ID
        refDesc == refIssue.Description
        templateContent == IF refDesc = <<>> THEN PlaceholderBody(name) ELSE refDesc
        filename == FilenameOf(name)
    IN
    IF name \in env.writeFail
    THEN [w2 EXCEPT !.failed = @ \cup {name}]
    ELSE [w2 EXCEPT
            !.dir = MapPut(@, filename, templateContent),
            !.wrote = @ \cup {filename},
            !.upserted = @ \cup {name},
            !.tt.Templates = MapPut(@, name,
                [ID |-> template.ID, Name |-> name, Filename |-> filename,
                 LastSync |-> Now, Description |-> templateContent,
                 RefIssueID |-> refID])]

\* A loop that would stop at the first template that fails, to compare against
RECURSIVE SyncEachAbort(_, _, _, _)
SyncEachAbort(w, t, templates, env) ==
    IF templates = <<>> \/ w.failed # {} THEN w
    ELSE SyncEachAbort(syncSingleTemplate(w, t, Head(templates), env), t, Tail(templates), env)

\* lines 476-491: a template that fails is logged and the loop goes on
RECURSIVE SyncEach(_, _, _, _)
SyncEach(w, t, templates, env) ==
    IF templates = <<>> THEN w
    ELSE SyncEach(syncSingleTemplate(w, t, Head(templates), env), t, Tail(templates), env)

\* -------------------------------------------- syncTeamTemplatesIntelligent
NewTeamTemplates(t) ==
    [TeamID |-> TeamID[t], TeamKey |-> t, Templates |-> EmptyMap, LastSync |-> ZeroTime]

CatalogNames(templates) == {templates[i].Name : i \in DOMAIN templates}

\* lines 412-424: the loop that fills newTemplates and updatedTemplates
IsNewTemplate(hasExistingData, existing, template) ==
    ~hasExistingData \/ template.Name \notin DOMAIN existing.Templates

\* A classification that would ignore a missing body file, to compare against
IsUpdatedTemplateByIdOnly(hasExistingData, existing, dir, template) ==
    /\ hasExistingData
    /\ template.Name \in DOMAIN existing.Templates
    /\ existing.Templates[template.Name].ID # template.ID

IsUpdatedTemplate(hasExistingData, existing, dir, template) ==
    /\ hasExistingData
    /\ template.Name \in DOMAIN existing.Templates
    /\ LET existingTemplate == existing.Templates[template.Name]
       IN  \/ existingTemplate.ID # template.ID
           \/ ~fileExists(dir, existingTemplate.Filename)

\* lines 427-438
RemovedTemplateNames(hasExistingData, existing, templates) ==
    IF hasExistingData
    THEN {n \in DOMAIN existing.Templates : n \notin CatalogNames(templates)}
    ELSE {}

\* A removal that would keep the body files, to compare against
RemoveOldEntryOnly(w, removed) ==
    [w EXCEPT !.tt.Templates = MapDel(@, removed \cap DOMAIN w.tt.Templates)]

\* lines 494-501: the removal loop; its iterations commute
RemoveOld(w, removed) ==
    LET gone == removed \cap DOMAIN w.tt.Templates
    IN  [w EXCEPT
           !.dir = MapDel(@, {w.tt.Templates[n].Filename : n \in gone}),
           !.tt.Templates = MapDel(@, gone)]

SkipResult(reason) ==
    [err |-> FALSE, SkipReason |-> reason,
     NewTemplates |-> 0, UpdatedTemplates |-> 0, RemovedTemplates |-> 0]

\* An early return that would stamp the team's entry, to compare against
SkipSyncStamped(md, dir, iss, t, reason) ==
    [md |-> IF t \in DOMAIN md THEN [md EXCEPT ![t].LastSync = Now] ELSE md,
     dir |-> dir, iss |-> iss, res |-> SkipResult(reason)]

\* lines 397-401 and 441-449: the two early returns leave everything alone
SkipSync(md, dir, iss, t, reason) ==
    [md |-> md, dir |-> dir, iss |-> iss, res |-> SkipResult(reason)]

\* md is metadata.Templates, dir the team directory, iss the tracker's records.
\* The value is the state the call leaves (md, dir, iss), its SyncResult
\* (res) and what it saw and did (obs).
syncTeamTemplatesIntelligent(md, dir, iss, t, env) ==
    LET listed == ListIssueTemplatesForTeam(t, env)
        templates == listed.templates
        hasExistingData == t \in DOMAIN md
        existing == IF hasExistingData THEN md[t] ELSE NewTeamTemplates(t)
        newTemplates ==
            SelectSeq(templates, LAMBDA x : IsNewTemplate(hasExistingData, existing, x))
        updatedTemplates ==
            SelectSeq(templates, LAMBDA x : IsUpdatedTemplate(hasExistingData, existing, dir, x))
        removed == RemovedTemplateNames(hasExistingData, existing, templates)
        seen == [templates |-> templates, new |-> newTemplates,
                 updated |-> updatedTemplates, removed |-> removed,
                 sameID |-> {x.Name : x \in {y \in Range(templates) :
                                /\ y.Name \in DOMAIN existing.Templates
                                /\ existing.Templates[y.Name].ID = y.ID}},
                 created |-> {}, fetchTried |-> {}, fetched |-> {},
                 wrote |-> {}, upserted |-> {}, failed |-> {}]
        same == [md |-> md, dir |-> dir, iss |-> iss]
    IN
    IF listed.err THEN same @@ [res |-> [SkipResult("") EXCEPT !.err = TRUE], obs |-> seen]
    ELSE IF Len(templates) = 0
    THEN SkipSync(md, dir, iss, t, "No templates found") @@ [obs |-> seen]
    ELSE IF Len(newTemplates) = 0 /\ Len(updatedTemplates) = 0 /\ removed = {}
    THEN SkipSync(md, dir, iss, t, "Up to date") @@ [obs |-> seen]
    ELSE IF env.mkdirFail
    THEN same @@ [res |-> [SkipResult("") EXCEPT !.err = TRUE], obs |-> seen]
    ELSE
    LET w0 == [tt |-> [existing EXCEPT !.LastSync = Now], dir |-> dir, iss |-> iss,
               created |-> {}, fetchTried |-> {}, fetched |-> {},
               wrote |-> {}, upserted |-> {}, failed |-> {}]
        w1 == SyncEach(w0, t, newTemplates, env)
        w2 == SyncEach(w1, t, updatedTemplates, env)
        w3 == RemoveOld(w2, removed)
    IN  [md |-> MapPut(md, t, w3.tt), dir |-> w3.dir, iss |-> w3.iss,
         res |-> [err |-> FALSE, SkipReason |-> "",
                  NewTemplates |-> Len(newTemplates),
                  UpdatedTemplates |-> Len(updatedTemplates),
                  RemovedTemplates |-> Cardinality(removed)],
         obs |-> [seen EXCEPT !.created = w3.created, !.fetchTried = w3.fetchTried,
                              !.fetched = w3.fetched, !.wrote = w3.wrote,
                              !.upserted = w3.upserted, !.failed = w3.failed]]

\* ---------------------------------------------------------------- commands
\* The index as the running command reads it: what the commands before it
\* stamped with their time.Now() is in the past by now.
loadTemplateMetadata == AgeMeta(meta)

\* templatesSyncCmd, lines 132-146: the teams one after the other on one
\* in-memory metadata; a team whose sync returns an error is skipped.
RECURSIVE SyncTeams(_, _, _)
SyncTeams(acc, teams, env) ==
    IF teams = <<>> THEN acc
    ELSE LET t == Head(teams)
             r == syncTeamTemplatesIntelligent(acc.md, acc.files[t], acc.iss, t, env)
         IN  SyncTeams([md |-> r.md,
                        files |-> [acc.files EXCEPT ![t] = r.dir],
                        iss |-> r.iss,
                        rep |-> MapPut(acc.rep, t, [res |-> r.res, obs |-> r.obs])],
                       Tail(teams), env)

\* templatesSyncCmd for `--team t` (teams = <<t>>) or `--all` (ListTeams).
templatesSyncCmd(teams, env) ==
    /\ LET loaded == loadTemplateMetadata
           md0 == IF ~loaded.exists THEN EmptyMap ELSE loaded.Templates
           done == SyncTeams([md |-> md0, files |-> files, iss |-> issues,
                              rep |-> EmptyMap], teams, env)
       IN  /\ done.iss <= MaxIssues
           /\ meta' = MetaDoc(done.md, Now)
           /\ files' = done.files
           /\ issues' = done.iss
           /\ last' = [cmd |-> "sync", teams |-> teams, rep |-> done.rep]
    /\ UNCHANGED <<catalog, fill, sect, ttl, san, rsv, pick, look, gql, ai, procs>>

\* The names of team t with a reference record id in the index
CachedRefs(t) ==
    IF meta.exists /\ t \in DOMAIN meta.Templates
    THEN {n \in DOMAIN meta.Templates[t].Templates :
            meta.Templates[t].Templates[n].RefIssueID # NoRef}
    ELSE {}

\* The names of team t the next sync has to extract: only their remote calls
\* and file writes can fail.
Pending(t) ==
    LET has == meta.exists /\ t \in DOMAIN meta.Templates
        existing == IF has THEN meta.Templates[t] ELSE NewTeamTemplates(t)
    IN  {catalog[t][i].Name : i \in
            {j \in DOMAIN catalog[t] :
                \/ IsNewTemplate(has, existing, catalog[t][j])
                \/ IsUpdatedTemplate(has, existing, files[t], catalog[t][j])}}

\* `templates sync --team t` and `templates sync --all`
Sync ==
    \E teams \in {<<t>> : t \in Teams} \cup {TeamOrder} :
        \E env \in Envs(UNION {Pending(t) : t \in Range(teams)},
                        UNION {CachedRefs(t) : t \in Range(teams)}) :
            templatesSyncCmd(teams, env)

\* templatesCleanCmd --team t, lines 277-291
CleanTeam ==
    \E t \in Teams :
        /\ files' = [files EXCEPT ![t] = EmptyMap]
        /\ meta' = IF ~loadTemplateMetadata.exists THEN meta
                   ELSE [loadTemplateMetadata EXCEPT !.Templates = MapDel(@, {t})]
        /\ last' = [cmd |-> "clean", teams |-> <<t>>]
        /\ UNCHANGED <<catalog, issues, fill, sect, ttl, san, rsv, pick, look, gql, ai, procs>>

\* templatesCleanCmd --all, lines 267-275: the whole templates directory goes
CleanAll ==
    /\ files' = [t \in Teams |-> EmptyMap]
    /\ meta' = NoMeta
    /\ last' = [cmd |-> "clean", teams |-> TeamOrder]
    /\ UNCHANGED <<catalog, issues, fill, sect, ttl, san, rsv, pick, look, gql, ai, procs>>

\* ------------------------------------------------------------- environment
\* The team's template catalog changes in the tracker, one template at a
\* time: a template is added, deleted, or replaced by one of the same name.
OneEdit(old, new) ==
    LET diff == (Range(old) \ Range(new)) \cup (Range(new) \ Range(old))
    IN  \/ Cardinality(diff) = 1
        \/ Cardinality(diff) = 2 /\ CatalogNames(old) = CatalogNames(new)

RemoteChange ==
    \E t \in Teams : \E c \in Catalogs :
        /\ OneEdit(catalog[t], c)
        /\ catalog' = [catalog EXCEPT ![t] = c]
        /\ last' = NoCmd
        /\ UNCHANGED <<issues, meta, files, fill, sect, ttl, san, rsv, pick, look, gql, ai, procs>>

\* The user deletes a cached body file behind the tool's back.
ExternalDelete ==
    \E t \in Teams : \E f \in DOMAIN files[t] :
        /\ files' = [files EXCEPT ![t] = MapDel(@, {f})]
        /\ last' = NoCmd
        /\ UNCHANGED <<catalog, issues, meta, fill, sect, ttl, san, rsv, pick, look, gql, ai, procs>>

SyncInit ==
    /\ catalog \in [Teams -> Catalogs]
    /\ issues = 0
    /\ meta = NoMeta
    /\ files = [t \in Teams |-> EmptyMap]
    /\ last = NoCmd

PureIdle ==
    /\ ttl = Idle /\ san = Idle /\ rsv = Idle /\ pick = Idle
    /\ look = Idle /\ gql = Idle /\ ai = Idle /\ procs = Idle

Init ==
    /\ SyncInit
    /\ fill = Idle
    /\ sect = Idle
    /\ PureIdle

Next ==
    \/ Sync
    \/ CleanTeam
    \/ CleanAll
    \/ RemoteChange
    \/ ExternalDelete

vars == <<catalog, issues, meta, files, last, fill, sect, ttl, san, rsv, pick,
          look, gql, ai, procs>>
Spec == Init /\ [][Next]_vars

\* The commands alone: nobody touches the cache directory behind the tool.
NextOps ==
    \/ Sync
    \/ CleanTeam
    \/ CleanAll
    \/ RemoteChange
SpecOps == Init /\ [][NextOps]_vars

\* ================================================================== claims
Synced(t) == last.cmd = "sync" /\ t \in DOMAIN last.rep
CachedNames(m, t) ==
    IF m.exists /\ t \in DOMAIN m.Templates THEN DOMAIN m.Templates[t].Templates ELSE {}

\* The last command synced team t and cached every template it set out to
SyncedClean(t) ==
    Synced(t) /\ ~last.rep[t].res.err /\ last.rep[t].obs.failed = {}

\* C1: a team synced twice in a row, the first sync having cached every
\* template it set out to, with the same remote catalog listed both times:
\* the second sync reports zero new, updated and removed templates and
\* writes no body file and no index entry.
C1_SyncIdempotent ==
    [][\A t \in Teams :
        (/\ SyncedClean(t) /\ Synced(t)'
         /\ last'.rep[t].obs.templates = last.rep[t].obs.templates)
        => /\ last'.rep[t].res.NewTemplates = 0
           /\ last'.rep[t].res.UpdatedTemplates = 0
           /\ last'.rep[t].res.RemovedTemplates = 0
           /\ last'.rep[t].obs.wrote = {}
           /\ last'.rep[t].obs.upserted = {}
    ]_vars

\* C2: after any sequence of completed sync and clean commands every
\* template entry of the index has its body file on disk.
C2_CacheInvariant ==
    last.cmd \in {"sync", "clean"} =>
        \A t \in Teams : \A n \in CachedNames(meta, t) :
            fileExists(files[t], meta.Templates[t].Templates[n].Filename)

\* C3: on a non-empty catalog, an entry is new exactly when its name is not
\* cached; updated exactly when it is cached and the id differs or the cached
\* body file is missing; a cached name is removed exactly when the catalog
\* lacks it; an entry cached with the same id and its file is in none.
C3_Partition ==
    [][\A t \in Teams :
        (Synced(t)' /\ last'.rep[t].obs.templates # <<>>) =>
        LET o == last'.rep[t].obs
            cached == CachedNames(meta, t)
            differs(e) == meta.Templates[t].Templates[e.Name].ID # e.ID
            missing(e) == meta.Templates[t].Templates[e.Name].Filename \notin DOMAIN files[t]
        IN  /\ \A i \in DOMAIN o.templates :
                 LET e == o.templates[i] IN
                 /\ (e \in Range(o.new)) <=> (e.Name \notin cached)
                 /\ (e \in Range(o.updated)) <=>
                        (e.Name \in cached /\ (differs(e) \/ missing(e)))
                 /\ (e.Name \in cached /\ ~differs(e) /\ ~missing(e)) =>
                        /\ e \notin Range(o.new) \cup Range(o.updated)
                        /\ e.Name \notin o.removed
            /\ Range(o.new) \cup Range(o.updated) \subseteq Range(o.templates)
            /\ \A n \in Names :
                 (n \in o.removed) <=> (n \in cached /\ n \notin CatalogNames(o.templates))
    ]_vars

\* C3 witness: a sync classified an entry as updated although its id is the
\* cached one (its body file was missing), and another as new.
C3_Witness ==
    \E t \in Teams :
        /\ Synced(t)
        /\ \E i \in DOMAIN last.rep[t].obs.updated :
              last.rep[t].obs.updated[i].Name \in last.rep[t].obs.sameID
        /\ last.rep[t].obs.new # <<>>

\* The names cached for team t that its remote catalog lacks
Vanished(t) == CachedNames(meta, t) \ CatalogNames(catalog[t])
RemovalDone(t) ==
    /\ last'.rep[t].res.RemovedTemplates = Cardinality(Vanished(t))
    /\ \A n \in Vanished(t) :
         /\ n \in last'.rep[t].obs.removed
         /\ n \notin CachedNames(meta', t)
         /\ ~fileExists(files'[t], meta.Templates[t].Templates[n].Filename)

C6_ReferenceReuse ==
    [][\A t \in Teams :
        (Synced(t)' /\ ~last'.rep[t].res.err /\ last'.rep[t].res.SkipReason = "") =>
        LET o == last'.rep[t].obs
            before == IF CachedNames(meta, t) = {} THEN EmptyMap
                      ELSE meta.Templates[t].Templates
            after == meta'.Templates[t].Templates
            hadRef(n) == n \in DOMAIN before /\ before[n].RefIssueID # NoRef
            made(n) == \E c \in o.created : c.Title = RefTitle(n)
        IN  /\ \A e \in Range(o.new) \cup Range(o.updated) :
                 /\ hadRef(e.Name) <=> e.Name \in o.fetchTried
                 /\ e.Name \in o.fetched =>
                       /\ ~made(e.Name)
                       /\ after[e.Name].RefIssueID = before[e.Name].RefIssueID
                 /\ made(e.Name) =>
                       /\ ~hadRef(e.Name) \/ e.Name \in o.fetchTried \ o.fetched
                       /\ e.Name \in o.upserted =>
                             /\ after[e.Name].RefIssueID[2] \in (issues + 1)..issues'
                             /\ after[e.Name].RefIssueID[3] = e.ID
                 /\ (e.Name \notin o.fetched /\ e.Name \in o.upserted) => made(e.Name)
            /\ \A c \in o.created :
                 \E e \in Range(o.new) \cup Range(o.updated) :
                    c = [TeamID |-> TeamID[t], TemplateID |-> e.ID, Title |-> RefTitle(e.Name)]
            /\ Cardinality(o.created) = issues' - issues
    ]_vars

\* C6 witness: one sync reused the cached record of an updated template,
\* creating none for it, and created a record for a new template.
C6_Witness ==
    \E t \in Teams :
        /\ Synced(t)
        /\ \E n \in last.rep[t].obs.fetched :
              /\ n \in last.rep[t].obs.upserted
              /\ \A c \in last.rep[t].obs.created : c.Title # RefTitle(n)
        /\ \E n \in last.rep[t].obs.upserted \ last.rep[t].obs.fetchTried :
              \E c \in last.rep[t].obs.created : c.Title = RefTitle(n)

\* A sync of team t that ended "No templates found" or "Up to date"
NoOpSync(t) ==
    /\ Synced(t)
    /\ last.rep[t].res.SkipReason \in {"No templates found", "Up to date"}

MaxPieces == 3      \* pieces a template body is put together from
MaxLines == 3       \* lines of a sectioned template body

\* strings.TrimSpace cuts Unicode white space; \s of the pattern is [\t\n\f\r ]
SpaceChars == {" ", "\t", "\n", "\r"}
KeyChars == Range(Uppers) \cup Range(Lowers) \cup Digits \cup {"_", "-"}
TrimSpace(s) == Trim(s, SpaceChars)
HasPrefix(s, p) == Len(s) >= Len(p) /\ SubSeq(s, 1, Len(p)) = p
TrimPrefix(s, p) == IF HasPrefix(s, p) THEN SubSeq(s, Len(p) + 1, Len(s)) ELSE s

\* strings.Split(s, sep) for a non-empty sep
RECURSIVE SplitFrom(_, _, _, _)
SplitFrom(s, sep, from, i) ==
    IF i + Len(sep) - 1 > Len(s) THEN <<SubSeq(s, from, Len(s))>>
    ELSE IF SubSeq(s, i, i + Len(sep) - 1) = sep
         THEN <<SubSeq(s, from, i - 1)>> \o SplitFrom(s, sep, i + Len(sep), i + Len(sep))
         ELSE SplitFrom(s, sep, from, i + 1)
Split(s, sep) == SplitFrom(s, sep, 1, 1)

\* strings.Join(elems, sep)
RECURSIVE Join(_, _)
Join(elems, sep) ==
    IF elems = <<>> THEN <<>>
    ELSE IF Len(elems) = 1 THEN elems[1]
    ELSE elems[1] \o sep \o Join(Tail(elems), sep)

\* All orders a Go map range can visit the keys S in
Perms(S) ==
    {f \in [1..Cardinality(S) -> S] : \A x \in S : \E i \in DOMAIN f : f[i] = x}

\* --- the pattern \{\{\s*([A-Za-z0-9_\-]+)(?:\|([^}]+))?\s*\}\}
RECURSIVE SkipIn(_, _, _)
SkipIn(s, i, set) ==
    IF i <= Len(s) /\ s[i] \in set THEN SkipIn(s, i + 1, set) ELSE i
RECURSIVE SkipNotBrace(_, _)
SkipNotBrace(s, i) ==
    IF i <= Len(s) /\ s[i] # "}" THEN SkipNotBrace(s, i + 1) ELSE i
At(s, i, c) == i <= Len(s) /\ s[i] = c
NoMatch == [ok |-> FALSE]

\* The match of the pattern that starts at position i of s, if there is one:
\* end is the position after it, key is group 1, group is group 2 ("" when
\* the group did not take part).
MatchAt(s, i) ==
    IF ~(At(s, i, "{") /\ At(s, i + 1, "{")) THEN NoMatch
    ELSE LET k1 == SkipIn(s, i + 2, SpaceChars)
             k2 == SkipIn(s, k1, KeyChars)
             g2 == SkipNotBrace(s, k2 + 1)
             sp == SkipIn(s, k2, SpaceChars)
         IN  IF k2 = k1 THEN NoMatch
             ELSE IF /\ At(s, k2, "|") /\ g2 > k2 + 1
                     /\ At(s, g2, "}") /\ At(s, g2 + 1, "}")
                  THEN [ok |-> TRUE, start |-> i, end |-> g2 + 2,
                        key |-> SubSeq(s, k1, k2 - 1),
                        group |-> SubSeq(s, k2 + 1, g2 - 1)]
             ELSE IF At(s, sp, "}") /\ At(s, sp + 1, "}")
                  THEN [ok |-> TRUE, start |-> i, end |-> sp + 2,
                        key |-> SubSeq(s, k1, k2 - 1), group |-> <<>>]
             ELSE NoMatch

\* re.FindAllStringSubmatch(content, -1): leftmost, non-overlapping
RECURSIVE FindAllFrom(_, _)
FindAllFrom(s, i) ==
    IF i > Len(s) THEN <<>>
    ELSE LET m == MatchAt(s, i)
         IN  IF m.ok THEN <<m>> \o FindAllFrom(s, m.end)
             ELSE FindAllFrom(s, i + 1)
FindAllStringSubmatch(s) == FindAllFrom(s, 1)

\* seen, lines 1656-1664: the set of keys of the matches
SeenKeys(matches) == {matches[i].key : i \in DOMAIN matches}

\* prompts, lines 1658-1664: a later match with prompt text overwrites
RECURSIVE PromptsOf(_, _)
PromptsOf(matches, acc) ==
    IF matches = <<>> THEN acc
    ELSE LET m == Head(matches)
             p == TrimSpace(m.group)
         IN  PromptsOf(Tail(matches),
                       IF p # <<>> THEN MapPut(acc, m.key, p) ELSE acc)

\* A missing that would count an empty value as none, to compare against
MissingKeysOrEmpty(seen, vals) ==
    {k \in seen : k \notin DOMAIN vals \/ vals[k] = <<>>}
\* missing, lines 1665-1670 (and 1681): seen keys the values lack
MissingKeys(seen, vals) == {k \in seen : k \notin DOMAIN vals}

\* What is printed to ask for key, lines 1674-1676
PromptFor(prompts, key) ==
    IF key \in DOMAIN prompts THEN prompts[key] \o <<"\n", ">", " ">>
    ELSE key \o <<":", " ">>

\* re.ReplaceAllStringFunc, lines 1687-1693: a match whose key has a value
\* becomes the value, any other match and all other text stay.
RECURSIVE ReplaceAllFrom(_, _, _)
ReplaceAllFrom(s, i, vals) ==
    IF i > Len(s) THEN <<>>
    ELSE LET m == MatchAt(s, i)
         IN  IF m.ok
             THEN (IF m.key \in DOMAIN vals THEN vals[m.key]
                   ELSE SubSeq(s, i, m.end - 1)) \o ReplaceAllFrom(s, m.end, vals)
             ELSE <<s[i]>> \o ReplaceAllFrom(s, i + 1, vals)

\* vals after the prompting loop, lines 1671-1680: every missing key gets
\* the trimmed line read for it.
AskAll(vals, miss, answers) ==
    [k \in DOMAIN vals \cup miss |->
        IF k \in miss THEN TrimSpace(answers[k]) ELSE vals[k]]

MissingPrefix == "missing values for: "

\* fillTemplate; order is the order the range over seen yields the missing
\* keys in, answers the lines read from stdin, errOrder the order of the
\* second range over seen.
fillTemplate(tpl, vals, interactive, failOnMissing, order, answers, errOrder) ==
    LET matches == FindAllStringSubmatch(tpl)
        seen == SeenKeys(matches)
        prompts == PromptsOf(matches, EmptyMap)
        ask == interactive /\ order # <<>>
        vars2 == IF ask THEN AskAll(vals, Range(order), answers) ELSE vals
        missing == IF ask THEN errOrder ELSE order
    IN  IF failOnMissing /\ missing # <<>>
        THEN [content |-> <<>>, err |-> TRUE,
              msg |-> <<MissingPrefix>> \o Join(missing, <<",", " ">>),
              prompted |-> IF ask THEN [i \in DOMAIN order |-> PromptFor(prompts, order[i])]
                           ELSE <<>>,
              vars |-> vars2]
        ELSE [content |-> ReplaceAllFrom(tpl, 1, vars2), err |-> FALSE,
              msg |-> <<>>,
              prompted |-> IF ask THEN [i \in DOMAIN order |-> PromptFor(prompts, order[i])]
                           ELSE <<>>,
              vars |-> vars2]

\* --- inputs
PhA == <<"{", "{", "a", "}", "}">>
PhASpaced == <<"{", "{", " ", "a", " ", "}", "}">>
PhABlankPrompt == <<"{", "{", "a", "|", " ", "}", "}">>
PhANoPrompt == <<"{", "{", "a", "|", "}", "}">>
PhB == <<"{", "{", "b", "}", "}">>
PhBPrompt == <<"{", "{", "b", "|", "p", "}", "}">>
PhBPromptQ == <<"{", "{", "b", "|", " ", "q", " ", "}", "}">>
PlainText == <<"x">>
Pieces == {PhA, PhASpaced, PhABlankPrompt, PhANoPrompt, PhB, PhBPrompt,
           PhBPromptQ, PlainText}
RECURSIVE Concat(_)
Concat(ss) == IF ss = <<>> THEN <<>> ELSE Head(ss) \o Concat(Tail(ss))
Bodies == {Concat(ps) : ps \in UNION {[1..n -> Pieces] : n \in 0..MaxPieces}}
KeyA == <<"a">>
KeyB == <<"b">>
ValuesOf == [k \in {KeyA, KeyB} |->
                IF k = KeyA THEN {<<"V">>, PhB} ELSE {<<"W">>, <<>>}]
VarMaps == UNION {{f \in [ks -> UNION {ValuesOf[k] : k \in ks}] :
                      \A k \in ks : f[k] \in ValuesOf[k]} : ks \in SUBSET {KeyA, KeyB}}
StdinLines == {<<" ", "u", " ", "\n">>, <<>>}
FillCalls ==
    {[pc |-> "call", tpl |-> b, vars |-> v, interactive |-> i, failOnMissing |-> f] :
        b \in Bodies, v \in VarMaps, i \in BOOLEAN, f \in BOOLEAN}

\* One call of fillTemplate
FillTemplate ==
    /\ fill.pc = "call"
    /\ LET seen == SeenKeys(FindAllStringSubmatch(fill.tpl))
           miss == MissingKeys(seen, fill.vars)
           ask == fill.interactive /\ miss # {}
       IN  \E order \in Perms(miss) :
           \E answers \in (IF ask THEN [miss -> StdinLines] ELSE {EmptyMap}) :
           \E errOrder \in (IF ask
                            THEN Perms(MissingKeys(seen, AskAll(fill.vars, miss, answers)))
                            ELSE {order}) :
               fill' = [pc |-> "done", tpl |-> fill.tpl, vars |-> fill.vars,
                        interactive |-> fill.interactive,
                        failOnMissing |-> fill.failOnMissing,
                        out |-> fillTemplate(fill.tpl, fill.vars, fill.interactive,
                                             fill.failOnMissing, order, answers,
                                             errOrder)]
    /\ UNCHANGED <<catalog, issues, meta, files, last, sect, ttl, san, rsv, pick, look, gql, ai, procs>>

SyncIdle ==
    /\ catalog = [t \in Teams |-> <<>>]
    /\ issues = 0
    /\ meta = NoMeta
    /\ files = [t \in Teams |-> EmptyMap]
    /\ last = NoCmd

FillInit ==
    /\ SyncIdle
    /\ sect = Idle
    /\ PureIdle
    /\ fill \in FillCalls
FillNext == FillTemplate
FillSpec == FillInit /\ [][FillNext]_vars

\* ======================================================== section filling
\* cmd/issues_adv.go, fillTemplateSectionsDynamically and fillSingleSection
NL == <<"\n">>
H3 == <<"#", "#", "#", " ">>
H2 == <<"#", "#", " ">>

\* Lines 1933-1935: a line that, trimmed, starts a section
IsHeaderLine(line) ==
    HasPrefix(TrimSpace(line), H3) \/ HasPrefix(TrimSpace(line), H2)
\* Line 1936
headerSectionName(line) == TrimPrefix(TrimPrefix(TrimSpace(line), H3), H2)

\* parseTemplateSections: the section names of a body, in order
parseTemplateSections(content) ==
    LET lines == Split(content, NL)
        hs == SelectSeq(lines, IsHeaderLine)
    IN  [i \in DOMAIN hs |-> headerSectionName(hs[i])]

\* A search that would stop at the first header line whatever its name, to
\* compare against
RECURSIVE SectionStartAnyName(_, _, _)
SectionStartAnyName(lines, sectionName, i) ==
    IF i > Len(lines) THEN 0
    ELSE IF IsHeaderLine(lines[i]) THEN i
    ELSE SectionStartAnyName(lines, sectionName, i + 1)
\* Lines 1932-1938: index of the first header line named sectionName, 0 if none
RECURSIVE SectionStartFrom(_, _, _)
SectionStartFrom(lines, sectionName, i) ==
    IF i > Len(lines) THEN 0
    ELSE IF IsHeaderLine(lines[i]) /\ headerSectionName(lines[i]) = sectionName THEN i
    ELSE SectionStartFrom(lines, sectionName, i + 1)

\* A search that would never find a next header, to compare against
NextSectionIdxEnd(lines, j) == Len(lines) + 1
\* Lines 1939-1946: index of the first header line from j on, Len(lines) + 1
\* if there is none
RECURSIVE NextSectionIdx(_, _)
NextSectionIdx(lines, j) ==
    IF j > Len(lines) THEN Len(lines) + 1
    ELSE IF IsHeaderLine(lines[j]) THEN j
    ELSE NextSectionIdx(lines, j + 1)

fillSingleSection(templateContent, sectionName, content) ==
    LET lines == Split(templateContent, NL)
        i == SectionStartFrom(lines, sectionName, 1)
        newLines == SubSeq(lines, 1, i) \o <<<<>>, content, <<>>>>
                    \o SubSeq(lines, NextSectionIdx(lines, i + 1), Len(lines))
    IN  IF i = 0 THEN templateContent ELSE Join(newLines, NL)

\* fillTemplateSectionsDynamically with the map ranged over in order
RECURSIVE fillTemplateSectionsDynamically(_, _, _)
fillTemplateSectionsDynamically(templateContent, sections, order) ==
    IF order = <<>> THEN templateContent
    ELSE fillTemplateSectionsDynamically(
             fillSingleSection(templateContent, Head(order), sections[Head(order)]),
             sections, Tail(order))

\* --- inputs
LineA == <<"#", "#", " ", "A">>
LineB == <<"#", "#", "#", " ", "B">>
LineAIndented == <<" ", "#", "#", " ", "A", " ">>
LineNoHeader == <<"#", "#", "A">>
LineText == <<"x">>
LineBlank == <<>>
BodyLines == {LineA, LineB, LineAIndented, LineNoHeader, LineText, LineBlank}
SectionBodies ==
    {Join(ls, NL) : ls \in UNION {[1..n -> BodyLines] : n \in 1..MaxLines}}
SectionNames == {<<"A">>, <<"B">>}
Contents == {<<"c">>, <<"c", "\n", "d">>, <<>>, LineB}
SectionMaps == UNION {[ks -> Contents] : ks \in SUBSET SectionNames}
SectCalls ==
    {[pc |-> "call", body |-> b, sections |-> m] :
        b \in SectionBodies, m \in SectionMaps}

\* One call of fillTemplateSectionsDynamically
FillSections ==
    /\ sect.pc = "call"
    /\ \E order \in Perms(DOMAIN sect.sections) :
         sect' = [pc |-> "done", body |-> sect.body, sections |-> sect.sections,
                  order |-> order,
                  out |-> fillTemplateSectionsDynamically(sect.body, sect.sections, order)]
    /\ UNCHANGED <<catalog, issues, meta, files, last, fill, ttl, san, rsv, pick, look, gql, ai, procs>>

SectInit ==
    /\ SyncIdle
    /\ fill = Idle
    /\ PureIdle
    /\ sect \in SectCalls
SectNext == FillSections
SectSpec == SectInit /\ [][SectNext]_vars

\* ------------------------------------------------------- claims C8 to C10
FillDone == fill.pc = "done"
PlaceholderKeys(tpl) == SeenKeys(FindAllStringSubmatch(tpl))
AbsentKeys == PlaceholderKeys(fill.tpl) \ DOMAIN fill.vars
\* The keys an error message names, read back from its text
NamedKeys(msg) == Split(Tail(msg), <<",", " ">>)

\* C8: fillTemplate with failOnMissing and without interactive: when every
\* placeholder key of the body has a value the call returns no error; when
\* some key has none it returns an error and an empty body, and the error
\* message names each key without value once and no other key.
C8_FailOnMissing ==
    (FillDone /\ fill.failOnMissing /\ ~fill.interactive) =>
        IF AbsentKeys = {}
        THEN ~fill.out.err
        ELSE /\ fill.out.err
             /\ fill.out.content = <<>>
             /\ Head(fill.out.msg) = MissingPrefix
             /\ Range(NamedKeys(fill.out.msg)) = AbsentKeys
             /\ Len(NamedKeys(fill.out.msg)) = Cardinality(AbsentKeys)

\* C8 witness: a failing call whose body has two keys, both without value,
\* named in the error in the reverse of their order in the body.
C8_Witness ==
    /\ FillDone /\ fill.failOnMissing /\ ~fill.interactive
    /\ fill.out.err /\ AbsentKeys = {KeyA, KeyB}
    /\ fill.out.msg = <<MissingPrefix, "b", ",", " ", "a">>

\* The keys of the matches in the order of their first occurrence
RECURSIVE FirstOccurrences(_, _)
FirstOccurrences(matches, acc) ==
    IF matches = <<>> THEN acc
    ELSE FirstOccurrences(Tail(matches),
            IF Head(matches).key \in Range(acc) THEN acc
            ELSE Append(acc, Head(matches).key))

\* C9: an interactive fillTemplate asks once for each key without value, in
\* the order of the keys' first occurrence in the body, printing the key's
\* prompt text when it has one and the key name otherwise.
C9_PromptOrder ==
    (FillDone /\ fill.interactive) =>
        LET matches == FindAllStringSubmatch(fill.tpl)
            keys == SelectSeq(FirstOccurrences(matches, <<>>),
                              LAMBDA k : k \notin DOMAIN fill.vars)
        IN  fill.out.prompted =
                [i \in DOMAIN keys |-> PromptFor(PromptsOf(matches, EmptyMap), keys[i])]

SectDone == sect.pc = "done"
\* The lines of a document that are the heading of section name
HeadingsOf(lines, name) ==
    {i \in DOMAIN lines : IsHeaderLine(lines[i]) /\ headerSectionName(lines[i]) = name}
\* The lines strictly between heading line i and the next heading or the end
SectionLines(lines, i) ==
    LET later == {j \in DOMAIN lines : j > i /\ IsHeaderLine(lines[j])}
        stop == IF later = {} THEN Len(lines) + 1
                ELSE CHOOSE j \in later : \A k \in later : j <= k
    IN  SubSeq(lines, i + 1, stop - 1)
HeadingFree(content) ==
    \A i \in DOMAIN Split(content, NL) : ~IsHeaderLine(Split(content, NL)[i])
\* Section name is filled in the result: its heading is there, followed up
\* to the next heading by a blank line, the content and a blank line.
SectionFilled(name) ==
    LET lines == Split(sect.out, NL)
    IN  /\ HeadingsOf(lines, name) # {}
        /\ \E i \in HeadingsOf(lines, name) :
              SectionLines(lines, i) =
                  <<<<>>>> \o Split(sect.sections[name], NL) \o <<<<>>>>
OnceInBody(name) == Cardinality(HeadingsOf(Split(sect.body, NL), name)) = 1

\* C10 as claimed: for every supplied section whose heading occurs exactly
\* once in the body, the result has the heading and, between it and the next
\* heading or the end, exactly the supplied content between two blank lines.
C10_SectionReplaced ==
    SectDone => \A name \in DOMAIN sect.sections :
                    OnceInBody(name) => SectionFilled(name)

\* C10 amended: the same, when no supplied content has a heading line.
C10_SectionReplacedHeadingFree ==
    SectDone =>
        ((\A n \in DOMAIN sect.sections : HeadingFree(sect.sections[n])) =>
            \A name \in DOMAIN sect.sections :
                OnceInBody(name) => SectionFilled(name))

\* C10 witness: two sections filled, one with two lines of content in place
\* of a line of text, its heading followed by the other section's heading.
C10_Witness ==
    /\ SectDone
    /\ sect.body = Join(<<LineA, LineText, LineB>>, NL)
    /\ DOMAIN sect.sections = SectionNames
    /\ sect.sections[<<"A">>] = <<"c", "\n", "d">>
    /\ sect.sections[<<"B">>] = <<>>
    /\ sect.out = Join(<<LineA, <<>>, <<"c">>, <<"d">>, <<>>, LineB, <<>>, <<>>, <<>>>>, NL)

\* ============================================================ title prefix
\* cmd/issues_adv.go, parseTitlePrefixAndStrip and its use by issues create
TitlePrefixKey ==
    <<"t", "i", "t", "l", "e", "-", "p", "r", "e", "f", "i", "x", ":">>

\* parseTitlePrefixAndStrip: the prefix a body declares on its first line and
\* the body without that line; no prefix and the body itself otherwise
parseTitlePrefixAndStrip(tpl) ==
    LET lines == Split(tpl, NL)
        first == TrimSpace(lines[1])
    IN  IF HasPrefix(ToLower(first), TitlePrefixKey)
        THEN [prefix |-> TrimSpace(TrimPrefix(first, TitlePrefixKey)),
              body |-> Join(Tail(lines), NL)]
        ELSE [prefix |-> <<>>, body |-> tpl]

\* Lines 1066-1071: the title and the body that go on to variable filling
titleWithPrefix(tplContent, title) ==
    LET p == parseTitlePrefixAndStrip(tplContent)
    IN  IF p.prefix # <<>>
        THEN [prefix |-> p.prefix,
              title |-> IF ~HasPrefix(TrimSpace(title), p.prefix)
                        THEN TrimSpace(p.prefix \o <<" ">> \o title)
                        ELSE title,
              body |-> p.body]
        ELSE [prefix |-> <<>>, title |-> title, body |-> tplContent]

\* The calls: a first line, the rest of the body, and a title
TitleCalls ==
    LET firsts == {
            \* "Title-Prefix: Feat:"
            <<"T", "i", "t", "l", "e", "-", "P", "r", "e", "f", "i", "x",
              ":", " ", "F", "e", "a", "t", ":">>,
            \* "title-prefix: Feat:"
            <<"t", "i", "t", "l", "e", "-", "p", "r", "e", "f", "i", "x",
              ":", " ", "F", "e", "a", "t", ":">>,
            \* "TITLE-PREFIX:Feat:"
            <<"T", "I", "T", "L", "E", "-", "P", "R", "E", "F", "I", "X",
              ":", "F", "e", "a", "t", ":">>,
            \* "  title-prefix:  Feat: "
            <<" ", " ", "t", "i", "t", "l", "e", "-", "p", "r", "e", "f",
              "i", "x", ":", " ", " ", "F", "e", "a", "t", ":", " ">>,
            \* "title-prefix:"
            <<"t", "i", "t", "l", "e", "-", "p", "r", "e", "f", "i", "x",
              ":">>,
            \* "## Summary"
            <<"#", "#", " ", "S", "u", "m", "m", "a", "r", "y">>}
        rests == {
            \* ""
            <<>>,
            \* "\n## Summary\nplaceholder\n"
            <<"\n", "#", "#", " ", "S", "u", "m", "m", "a", "r", "y", "\n",
              "p", "l", "a", "c", "e", "h", "o", "l", "d", "e", "r", "\n">>,
            \* "\nx"
            <<"\n", "x">>}
        titles == {
            \* "Add search"
            <<"A", "d", "d", " ", "s", "e", "a", "r", "c", "h">>,
            \* "feat: add search"
            <<"f", "e", "a", "t", ":", " ", "a", "d", "d", " ", "s", "e",
              "a", "r", "c", "h">>,
            \* "Feat: add search"
            <<"F", "e", "a", "t", ":", " ", "a", "d", "d", " ", "s", "e",
              "a", "r", "c", "h">>,
            \* "FEAT: x"
            <<"F", "E", "A", "T", ":", " ", "x">>,
            \* " Feat: x "
            <<" ", "F", "e", "a", "t", ":", " ", "x", " ">>,
            \* ""
            <<>>}
    IN  {[pc |-> "call", body |-> f \o r, title |-> t] :
            f \in firsts, r \in rests, t \in titles}

\* The title-prefix step of one non-interactive issues create run
ApplyTitlePrefix ==
    /\ ttl.pc = "call"
    /\ ttl' = [pc |-> "done", body |-> ttl.body, title |-> ttl.title,
               out |-> titleWithPrefix(ttl.body, ttl.title)]
    /\ UNCHANGED <<catalog, issues, meta, files, last, fill, sect, san, rsv, pick, look, gql, ai, procs>>

TitleInit ==
    /\ SyncIdle /\ fill = Idle /\ sect = Idle
    /\ san = Idle /\ rsv = Idle /\ pick = Idle
    /\ look = Idle /\ gql = Idle /\ ai = Idle /\ procs = Idle
    /\ ttl \in TitleCalls
TitleSpec == TitleInit /\ [][ApplyTitlePrefix]_vars

\* ============================================================== file names
\* cmd/templates.go, sanitizeFilename on its own
MaxName == 3
\* The names: every string of up to MaxName characters over a letter in
\* upper case, one in lower case, a digit, a blank, an underscore, a hyphen
\* and a punctuation mark, and the name "Feature Template!"
SanCalls ==
    LET chars == {"F", "e", "9", " ", "_", "-", "!"}
        names == UNION {[1..n -> chars] : n \in 0..MaxName}
                 \cup {<<"F", "e", "a", "t", "u", "r", "e", " ", 
                       "T", "e", "m", "p", "l", "a", "t", "e", "!">>}
    IN  {[pc |-> "call", name |-> n] : n \in names}

\* One call of sanitizeFilename
Sanitize ==
    /\ san.pc = "call"
    /\ san' = [pc |-> "done", name |-> san.name, out |-> sanitizeFilename(san.name)]
    /\ UNCHANGED <<catalog, issues, meta, files, last, fill, sect, ttl, rsv, pick, look, gql, ai, procs>>

SanInit ==
    /\ SyncIdle /\ fill = Idle /\ sect = Idle
    /\ ttl = Idle /\ rsv = Idle /\ pick = Idle
    /\ look = Idle /\ gql = Idle /\ ai = Idle /\ procs = Idle
    /\ san \in SanCalls
SanSpec == SanInit /\ [][Sanitize]_vars

\* ========================================================= catalog lookup
\* cmd/issues_adv.go, issues template preview resolving a name against the
\* team's catalog. A catalog entry is [ID, Name, Description]; the tracker
\* answers IssueTemplateByID for the ids in byID, with the entry's name and
\* a body of its own.
MaxPick == 2
Contains(s, sub) ==
    \E i \in 0..(Len(s) - Len(sub)) : SubSeq(s, i + 1, i + Len(sub)) = sub
\* Lines 729-736
normalize(s) ==
    SelectSeq(ToLower(TrimSpace(s)), LAMBDA c : c \in Range(Lowers) \cup Digits)
\* The first of the indices at which a loop over a slice stops, 0 if there is none
FirstIndex(hits) ==
    IF hits # {} THEN CHOOSE i \in hits : \A j \in hits : i <= j ELSE 0
FullBody(id) == <<"full body of ">> \o id

\* IssueTemplateByNameForTeam: the exact trimmed name first, then the name
\* in any letter case; 0 if there is none
IssueTemplateByNameForTeam(items, name) ==
    LET exact == FirstIndex({ix \in DOMAIN items : TrimSpace(items[ix].Name) = TrimSpace(name)})
    IN  IF exact # 0 THEN exact
        ELSE FirstIndex({ix \in DOMAIN items :
                ToLower(TrimSpace(items[ix].Name)) = ToLower(TrimSpace(name))})

\* Lines 727-786: title and body of the template named arg, the entry they
\* were taken from (0: none of the catalog) and the lookups made after the
\* listing. Each step is an operator applied to what the step before left.
previewFromCatalog(items, arg, byID, argIsID) ==
    LET Pack(t, r, i) == [tplTitle |-> t, raw |-> r, from |-> i]
        Of(i) == IF i = 0 THEN Pack(<<>>, <<>>, 0)
                 ELSE Pack(items[i].Name, items[i].Description, i)
        ByID(id) == [op |-> "IssueTemplateByID", arg |-> id]
        Result(s, ops) ==
            [tplTitle |-> s.tplTitle, raw |-> s.raw, from |-> s.from,
             err |-> TrimSpace(s.raw) = <<>>, ops |-> ops]
        \* lines 770-786: the direct resolvers, when the body is still blank
        Direct(s, ops, n) ==
            IF TrimSpace(s.raw) # <<>> THEN Result(s, ops)
            ELSE IF argIsID
            THEN Result(Pack(arg, FullBody(arg), 0), ops \o <<ByID(arg)>>)
            ELSE Result(IF n # 0 THEN Of(n) ELSE s,
                        ops \o <<ByID(arg),
                                 [op |-> "ListIssueTemplatesForTeam", arg |-> <<>>]>>)
        \* lines 757-767: the full template of entry f, when the body is blank
        Fetched(s, f, n) ==
            IF TrimSpace(s.raw) # <<>> \/ f = 0 THEN Direct(s, <<>>, n)
            ELSE Direct(IF items[f].ID \in byID
                        THEN Pack(IF s.tplTitle = <<>> THEN items[f].Name
                                  ELSE s.tplTitle,
                                  FullBody(items[f].ID), f)
                        ELSE s,
                        <<ByID(items[f].ID)>>, n)
        Titled(s, normName, n) ==
            Fetched(s,
                    FirstIndex({ix \in DOMAIN items :
                        \/ (s.tplTitle # <<>> /\ items[ix].Name = s.tplTitle)
                        \/ normalize(items[ix].Name) = normName}),
                    n)
        \* lines 747-755: the first containing entry, when the body is blank
        Contained(s, c, normName, n) ==
            Titled(IF TrimSpace(s.raw) = <<>> /\ c # 0 THEN Of(c) ELSE s, normName, n)
        \* lines 727, 737-746: the first exact entry of a non-empty listing
        Listed(normName, n) ==
            IF items = <<>> THEN Direct(Of(0), <<>>, n)
            ELSE Contained(
                    Of(FirstIndex({ix \in DOMAIN items : normalize(items[ix].Name) = normName})),
                    FirstIndex({ix \in DOMAIN items :
                        Contains(normalize(items[ix].Name), normName)}),
                    normName, n)
    IN  Listed(normalize(TrimSpace(arg)), IssueTemplateByNameForTeam(items, arg))

\* The lookups: catalogs of up to MaxPick entries, a requested name, and the
\* tracker's answers to lookups by id
PickCalls ==
    LET names == {<<"A", "b">>, <<"a", " ", "b">>, <<"A", "b", "c">>, <<"x">>}
        id(i) == <<"t", <<"1", "2", "3", "4">>[i]>>
        entries(i) == {[ID |-> id(i), Name |-> n, Description |-> d] :
                          n \in names, d \in {<<>>, <<"D">> \o id(i)}}
        catalogs == UNION {{c \in [1..k -> UNION {entries(i) : i \in 1..k}] :
                               \A i \in 1..k : c[i].ID = id(i)} : k \in 0..MaxPick}
    IN  {[pc |-> "call", items |-> c, arg |-> a, byID |-> b, argIsID |-> x] :
            c \in catalogs, a \in {<<"A", "b">>, <<"a", "-", "b", " ">>},
            b \in SUBSET {id(i) : i \in 1..MaxPick}, x \in BOOLEAN}

\* The catalog lookup of one issues template preview run
PickFromCatalog ==
    /\ pick.pc = "call"
    /\ pick' = [pc |-> "done", items |-> pick.items, arg |-> pick.arg,
                byID |-> pick.byID, argIsID |-> pick.argIsID,
                out |-> previewFromCatalog(pick.items, pick.arg, pick.byID,
                                           pick.argIsID)]
    /\ UNCHANGED <<catalog, issues, meta, files, last, fill, sect, ttl, san, rsv, look, gql, ai, procs>>

PickInit ==
    /\ SyncIdle /\ fill = Idle /\ sect = Idle
    /\ ttl = Idle /\ san = Idle /\ rsv = Idle
    /\ look = Idle /\ gql = Idle /\ ai = Idle /\ procs = Idle
    /\ pick \in PickCalls
PickSpec == PickInit /\ [][PickFromCatalog]_vars

\* ====================================================== template sources
\* cmd/issues_adv.go, loadTemplateContent and the commands that resolve a
\* template. The world w holds what a run finds outside: the URLs that
\* answer (web), the files that can be read (fs), the environment
\* (envBase, envDir, cfgOK, homeOK) and the tracker (apiKey, supports,
\* teamFound, idHit, items, byID). Every call made outside is recorded in
\* ops as [op, arg]; the body found at a location is "body of" the location.

\* The prefixes that make a value a URL, and the suffix of a template file
HttpScheme == {<<"h", "t", "t", "p", ":", "/", "/">>, <<"h", "t", "t", "p", "s", ":", "/", "/">>}
MdSuffix == <<".", "m", "d">>
BodyOf(location) == <<"body of ">> \o location

\* expandUserPath, and expandHome of loadTemplateContent
expandUserPath(p, w) ==
    IF HasPrefix(p, <<"~">>) /\ w.homeOK
    THEN <<"$HOME">> \o TrimPrefix(p, <<"~">>)
    ELSE p

\* A search order that would put the environment's directory before the
\* explicit one, to compare against
templateSearchDirsEnvFirst(override, w) ==
    (IF TrimSpace(w.envDir) # <<>>
     THEN <<expandUserPath(TrimSpace(w.envDir), w)>> ELSE <<>>)
    \o (IF TrimSpace(override) # <<>> THEN <<expandUserPath(override, w)>> ELSE <<>>)
    \o (IF w.cfgOK
        THEN <<<<"$CFG", "/linear/templates">>>>
             \o (IF w.homeOK THEN <<<<"$HOME", "/.config/linear/templates">>>>
                 ELSE <<>>)
        ELSE <<>>)

\* templateSearchDirs: the directories searched for a name, in order
templateSearchDirs(override, w) ==
    (IF TrimSpace(override) # <<>> THEN <<expandUserPath(override, w)>> ELSE <<>>)
    \o (IF TrimSpace(w.envDir) # <<>>
        THEN <<expandUserPath(TrimSpace(w.envDir), w)>> ELSE <<>>)
    \o (IF w.cfgOK
        THEN <<<<"$CFG", "/linear/templates">>>>
             \o (IF w.homeOK THEN <<<<"$HOME", "/.config/linear/templates">>>>
                 ELSE <<>>)
        ELSE <<>>)

\* loadTemplateContent: the body for a URL, a path or a name. Each step is
\* an operator applied to what the step before left.
loadTemplateContent(value, overrideDir, baseOverride, w) ==
    LET Out(content, err, ops) == [content |-> content, err |-> err, ops |-> ops]
        Get(url) == [op |-> "GET", arg |-> url]
        Read(path) == [op |-> "ReadFile", arg |-> path]
        \* lines 1389-1395: the candidates are read up to the first readable
        FromDirs(cands, h, pre) ==
            Out(IF h # 0 THEN BodyOf(cands[h]) ELSE <<>>, h = 0,
                pre \o [i \in 1..(IF h = 0 THEN Len(cands) ELSE h) |-> Read(cands[i])])
        Local(cands, pre) ==
            FromDirs(cands, FirstIndex({ix \in DOMAIN cands : cands[ix] \in w.fs}), pre)
        Dirs(v, dirs, pre) ==
            Local([i \in DOMAIN dirs |-> dirs[i] \o <<"/">> \o v \o MdSuffix], pre)
        \* lines 1384-1388, with joinURL
        Remote(v, url) ==
            IF url \in w.web THEN Out(BodyOf(url), FALSE, <<Get(url)>>)
            ELSE Dirs(v, templateSearchDirs(overrideDir, w), <<Get(url)>>)
        Named(v, base) ==
            IF base # <<>>
            THEN Remote(v, TrimRightChars(base, {"/"}) \o <<"/">>
                           \o TrimLeftChars(v \o MdSuffix, {"/"}))
            ELSE Dirs(v, templateSearchDirs(overrideDir, w), <<>>)
        \* lines 1375-1380
        File(p) == Out(IF p \in w.fs THEN BodyOf(p) ELSE <<>>, p \notin w.fs, <<Read(p)>>)
        Load(v) ==
            IF v = <<>> THEN Out(<<>>, FALSE, <<>>)
            ELSE IF \E scheme \in HttpScheme : HasPrefix(v, scheme)
            THEN Out(IF v \in w.web THEN BodyOf(v) ELSE <<>>, v \notin w.web, <<Get(v)>>)
            ELSE IF Contains(v, <<"/">>) \/ HasPrefix(v, <<".">>) \/ HasPrefix(v, <<"~">>)
            THEN File(expandUserPath(v, w))
            \* templateBaseURL
            ELSE Named(v, IF TrimSpace(baseOverride) # <<>> THEN TrimSpace(baseOverride)
                          ELSE TrimSpace(w.envBase))
    IN  Load(TrimSpace(value))

\* issues create, lines 966-1064: from the flags to the template body the
\* run goes on with, to the issue created from a template id, or to the
\* section-filling mode. The interactive flag is left at its default.
issuesCreateAdvCmd(c) ==
    LET Op(n, a) == [op |-> n, arg |-> a]
        Fail(ops, msg) ==
            [ops |-> ops, err |-> TRUE, msg |-> msg, next |-> "error", body |-> <<>>]
        Go(ops, next, body) ==
            [ops |-> ops, err |-> FALSE, msg |-> "", next |-> next, body |-> body]
        teamSet == TrimSpace(c.team) # <<>>
        \* lines 998-1006
        isAIMode == /\ TrimSpace(c.template) # <<>>
                    /\ c.sections
                    /\ TrimSpace(c.title) # <<>>
        interactive == ~c.noInteractive /\ ~isAIMode
        \* lines 1022-1025
        picked == IF /\ interactive
                   /\ TrimSpace(c.template) = <<>>
                   /\ TrimSpace(c.description) = <<>>
                THEN <<Op("interactivePickTemplate", <<>>)>> ELSE <<>>
        team == <<Op("TeamByKey", TrimSpace(c.team))>>
        byId == <<Op("IssueTemplateByID", c.template)>>
        list == <<Op("ListIssueTemplatesForTeam", <<>>)>>
        Loaded(l) == IF l.err THEN Fail(l.ops, "failed to load template")
                     ELSE Go(l.ops, "continue", l.content)
        Named(n) ==
            IF n = 0 THEN Fail(byId \o team \o list, "template not found")
            ELSE Go(byId \o team \o list, "continue", c.api.items[n].Description)
    IN  IF ~c.api.apiKey THEN Fail(<<>>, "not authenticated")
        \* lines 1012-1019, and createIssueAIFriendly up to its cache lookup
        ELSE IF isAIMode
        THEN IF ~teamSet THEN Fail(<<>>, "--team is required for AI-friendly mode")
             ELSE IF ~c.api.teamFound THEN Fail(team, "team not found")
             ELSE Go(team \o <<Op("GetLocalTemplate", c.template)>>,
                     "createIssueAIFriendly", <<>>)
        \* lines 1028-1039
        ELSE IF TrimSpace(c.templateID) # <<>>
        THEN IF ~teamSet
             THEN Fail(picked, "--team is required when using --template-id")
             ELSE IF ~c.api.teamFound THEN Fail(picked \o team, "team not found")
             ELSE Go(picked \o team \o <<Op("CreateIssueFromTemplate", c.templateID)>>,
                     "created", <<>>)
        \* lines 1043-1064
        ELSE IF /\ ~interactive
                /\ TrimSpace(c.description) = <<>>
                /\ TrimSpace(c.template) # <<>>
        THEN IF c.source = "api"
             THEN IF c.api.idHit THEN Go(byId, "continue", FullBody(c.template))
                  ELSE IF ~teamSet
                  THEN Fail(byId, "--team is required to resolve template by name")
                  ELSE IF ~c.api.teamFound THEN Fail(byId \o team, "team not found")
                  ELSE Named(IssueTemplateByNameForTeam(c.api.items, c.template))
             ELSE Loaded(loadTemplateContent(c.template, c.overrideDir,
                                             c.baseOverride, c.w))
        ELSE Go(picked, "continue", <<>>)

\* issues template preview, lines 694-793: from the flags to the body that
\* is rendered
issuesTemplatePreviewCmd(c) ==
    LET Op(n, a) == [op |-> n, arg |-> a]
        Fail(ops, msg) ==
            [ops |-> ops, err |-> TRUE, msg |-> msg, next |-> "error", body |-> <<>>]
        Go(ops, body) ==
            [ops |-> ops, err |-> FALSE, msg |-> "", next |-> "render", body |-> body]
        teamSet == TrimSpace(c.team) # <<>>
        \* lines 701-713
        preferAPI == c.source = "auto" /\ teamSet
        probed == ~preferAPI /\ c.source \in {"api", "auto"} /\ c.api.apiKey
        probe == IF probed THEN <<Op("SupportsIssueTemplates", <<>>)>> ELSE <<>>
        source == IF preferAPI THEN (IF c.api.apiKey THEN "api" ELSE c.source)
                  ELSE IF probed /\ c.api.supports THEN "api"
                  ELSE c.source
        team == <<Op("TeamByKey", TrimSpace(c.team))>>
        list == <<Op("ListIssueTemplatesForTeam", <<>>)>>
        Found(f) ==
            IF f.err THEN Fail(probe \o team \o list \o f.ops, "template not found")
            ELSE Go(probe \o team \o list \o f.ops, f.raw)
        Loaded(l) == IF l.err THEN Fail(probe \o l.ops, "failed to load template")
                     ELSE Go(probe \o l.ops, l.content)
    IN  IF source = "api"
        THEN IF ~c.api.apiKey THEN Fail(probe, "not authenticated")
             ELSE IF ~teamSet
             THEN Fail(probe, "--team is required to resolve template by name")
             ELSE IF ~c.api.teamFound THEN Fail(probe \o team, "team not found")
             ELSE Found(previewFromCatalog(c.api.items, c.template, c.api.byID,
                                           c.api.idHit))
        ELSE Loaded(loadTemplateContent(c.template, c.overrideDir, c.baseOverride, c.w))

\* The calls. A value is a URL, a path, a path under the home directory or a
\* name; with it go the URLs and files that can hold it.
\* One call of loadTemplateContent
LoadTemplate ==
    /\ rsv.pc = "load"
    /\ rsv' = [pc |-> "done", cmd |-> "load", call |-> rsv,
               out |-> loadTemplateContent(rsv.template, rsv.overrideDir,
                                           rsv.baseOverride, rsv.w)]
    /\ UNCHANGED <<catalog, issues, meta, files, last, fill, sect, ttl, san, pick, look, gql, ai, procs>>
\* One run of issues create
IssuesCreate ==
    /\ rsv.pc = "create"
    /\ rsv' = [pc |-> "done", cmd |-> "create", call |-> rsv,
               out |-> issuesCreateAdvCmd(rsv)]
    /\ UNCHANGED <<catalog, issues, meta, files, last, fill, sect, ttl, san, pick, look, gql, ai, procs>>
\* One run of issues template preview
TemplatePreview ==
    /\ rsv.pc = "preview"
    /\ rsv' = [pc |-> "done", cmd |-> "preview", call |-> rsv,
               out |-> issuesTemplatePreviewCmd(rsv)]
    /\ UNCHANGED <<catalog, issues, meta, files, last, fill, sect, ttl, san, pick, look, gql, ai, procs>>

ResolveInit ==
    /\ SyncIdle /\ fill = Idle /\ sect = Idle
    /\ ttl = Idle /\ san = Idle /\ pick = Idle
    /\ look = Idle /\ gql = Idle /\ ai = Idle /\ procs = Idle
    /\ LET url == <<"h", "t", "t", "p", "s", ":", "/", "/", "h", "/", "t">>
           name == <<"b", "u", "g">>
           b1 == <<"h", "t", "t", "p", "s", ":", "/", "/", "b", "/">>
           b2 == <<"h", "t", "t", "p", "s", ":", "/", "/", "e">>
           file == <<"/">> \o name \o MdSuffix
           atBase(b) == b \o file
           inDir(d) == d \o file
           kinds == {
               [value |-> url, web |-> {url}, fs |-> {}],
               [value |-> <<".", "/", "t">>, web |-> {}, fs |-> {<<".", "/", "t">>}],
               [value |-> <<"~", "/", "t">>, web |-> {}, fs |-> {<<"$HOME", "/", "t">>}],
               [value |-> name,
                web |-> {atBase(<<"h", "t", "t", "p", "s", ":", "/", "/", "b">>), atBase(b2)},
                fs |-> {inDir(<<"o">>), inDir(<<"e">>),
                        inDir(<<"$CFG", "/linear/templates">>),
                        inDir(<<"$HOME", "/.config/linear/templates">>)}]}
           \* the remote base: none, the flag, or the environment
           bases == {<<<<>>, <<>>>>, <<b1, <<>>>>, <<<<>>, b2>>}
           outside(k) ==
               {[web |-> wb, fs |-> f, envBase |-> <<>>, envDir |-> ed,
                 cfgOK |-> ok[1], homeOK |-> ok[2]] :
                   wb \in {{}, k.web}, f \in SUBSET k.fs, ed \in {<<>>, <<"e">>},
                   ok \in {<<TRUE, TRUE>>, <<TRUE, FALSE>>, <<FALSE, FALSE>>}}
           \* for the commands: everything that can hold the value does, or nothing
           allOrNothing(k) ==
               {[web |-> s[1], fs |-> s[2], envBase |-> <<>>, envDir |-> <<"e">>,
                 cfgOK |-> TRUE, homeOK |-> TRUE] : s \in {<<k.web, k.fs>>, <<{}, {}>>}}
           trackers(v, supports, hits) ==
               {[apiKey |-> key, supports |-> sup, teamFound |-> tf, idHit |-> hit,
                 items |-> it, byID |-> {}] :
                   key \in BOOLEAN, sup \in supports, tf \in BOOLEAN, hit \in hits,
                   it \in {<<>>, <<[ID |-> <<"t", "1">>, Name |-> v,
                                    Description |-> <<"D">>]>>}}
           templates == {k \in kinds : k.value \in {url, name}}
                        \cup {[value |-> <<>>, web |-> {}, fs |-> {}]}
       IN  \/ \E k \in kinds : \E o \in {<<>>, <<"o">>}, b \in bases, w \in outside(k) :
                 rsv = [pc |-> "load", template |-> k.value, overrideDir |-> o,
                        baseOverride |-> b[1], w |-> [w EXCEPT !.envBase = b[2]]]
           \/ \E k \in kinds : \E s \in {"auto", "local", "remote", "api"},
                 t \in {<<>>, <<"T">>}, w \in allOrNothing(k),
                 a \in trackers(k.value, BOOLEAN, {FALSE}) :
                 rsv = [pc |-> "preview", source |-> s, template |-> k.value,
                        team |-> t, overrideDir |-> <<"o">>, baseOverride |-> b1,
                        w |-> w, api |-> a]
           \/ \E k \in templates : \E s \in {"auto", "local", "remote", "api"},
                 t \in {<<>>, <<"T">>}, id \in {<<>>, <<"i", "d">>},
                 ti \in {<<>>, <<"t">>}, d \in {<<>>, <<"d">>}, sec \in BOOLEAN,
                 ni \in BOOLEAN, w \in allOrNothing(k),
                 a \in trackers(k.value, {TRUE}, BOOLEAN) :
                 rsv = [pc |-> "create", source |-> s, template |-> k.value,
                        team |-> t, templateID |-> id, title |-> ti,
                        description |-> d, sections |-> sec, noInteractive |-> ni,
                        overrideDir |-> <<"o">>, baseOverride |-> b1,
                        w |-> w, api |-> a]
ResolveSpec == ResolveInit /\ [][LoadTemplate \/ IssuesCreate \/ TemplatePreview]_vars

\* ------------------------------------------------------ claims C11 to C20
\* C11: when no supplied section name is the name of a heading of the body,
\* fillTemplateSectionsDynamically returns the body unchanged.
C11_IdentityWhenNoMatch ==
    (SectDone /\ \A n \in DOMAIN sect.sections :
                    HeadingsOf(Split(sect.body, NL), n) = {})
        => sect.out = sect.body

\* C11 witness: a section B supplied with content for a body whose only
\* heading is A, and the body is returned as it was.
C11_Witness ==
    /\ SectDone
    /\ DOMAIN sect.sections = {<<"B">>}
    /\ sect.sections[<<"B">>] = <<"c">>
    /\ sect.body = Join(<<LineA, LineText>>, NL)
    /\ sect.out = sect.body

TitleDone == ttl.pc = "done"
\* The first line of a body, trimmed, and what it declares when it starts
\* with the key in any letter case: the text after the key, trimmed
FirstLineOf(body) == TrimSpace(Split(body, NL)[1])
DeclaredValue(body) ==
    TrimSpace(SubSeq(FirstLineOf(body), Len(TitlePrefixKey) + 1,
                     Len(FirstLineOf(body))))
DeclaresPrefix(body) ==
    /\ HasPrefix(ToLower(FirstLineOf(body)), TitlePrefixKey)
    /\ DeclaredValue(body) # <<>>
\* A title with text and no blanks around it
PlainTitle(title) == title # <<>> /\ TrimSpace(title) = title
StartsWithFold(title, prefix) == HasPrefix(ToLower(title), ToLower(prefix))

\* C12: when the first line of the body is the key Title-Prefix, in any
\* letter case, followed by a value, the prefix extracted is that value, the
\* line is removed from the body, and a title that does not start with the
\* value becomes the value, a space and the title.
C12_TitlePrefixExtracted ==
    (/\ TitleDone
     /\ DeclaresPrefix(ttl.body)
     /\ PlainTitle(ttl.title)
     /\ ~StartsWithFold(ttl.title, DeclaredValue(ttl.body)))
        => /\ ttl.out.prefix = DeclaredValue(ttl.body)
           /\ ttl.out.body = Join(Tail(Split(ttl.body, NL)), NL)
           /\ ttl.out.title = DeclaredValue(ttl.body) \o <<" ">> \o ttl.title

\* C13: when the body declares a prefix, a title that starts with it, letter
\* case ignored, is left unchanged, and any other title gets the prefix and
\* a space in front.
C13_PrefixNotDuplicated ==
    (TitleDone /\ ttl.out.prefix # <<>> /\ PlainTitle(ttl.title))
        => ttl.out.title =
              IF StartsWithFold(ttl.title, ttl.out.prefix)
              THEN ttl.title
              ELSE ttl.out.prefix \o <<" ">> \o ttl.title

SanDone == san.pc = "done"
StemAlphabet == Range(Lowers) \cup Digits \cup {"-"}
\* What the claim says of one character: lowercased, a blank or an
\* underscore made a hyphen, anything else outside the alphabet dropped
StemOfChar(c) ==
    IF c \in {" ", "_"} THEN <<"-">>
    ELSE IF ToLowerChar(c) \in StemAlphabet THEN <<ToLowerChar(c)>>
    ELSE <<>>
RECURSIVE StemOfChars(_)
StemOfChars(name) ==
    IF name = <<>> THEN <<>> ELSE StemOfChar(Head(name)) \o StemOfChars(Tail(name))
\* A string without its leading and trailing hyphens
WithoutOuterHyphens(s) ==
    LET inner == {i \in DOMAIN s : s[i] # "-"}
    IN  IF inner = {} THEN <<>>
        ELSE SubSeq(s, CHOOSE i \in inner : \A j \in inner : i <= j,
                       CHOOSE i \in inner : \A j \in inner : i >= j)

\* C14: the stem of a name is the name lowercased, blanks and underscores
\* made hyphens, other characters outside a-z, 0-9 and the hyphen removed,
\* and outer hyphens trimmed; it holds only those characters and neither
\* starts nor ends with a hyphen.
C14_SanitizedStem ==
    SanDone =>
        /\ san.out = WithoutOuterHyphens(StemOfChars(san.name))
        /\ Range(san.out) \subseteq StemAlphabet
        /\ san.out # <<>> => (Head(san.out) # "-" /\ san.out[Len(san.out)] # "-")

\* C14 witness: the name "Feature Template!" has the stem "feature-template".
C14_Witness ==
    /\ SanDone
    /\ san.name = <<"F", "e", "a", "t", "u", "r", "e", " ", 
                  "T", "e", "m", "p", "l", "a", "t", "e", "!">>
    /\ san.out = <<"f", "e", "a", "t", "u", "r", "e", "-",
                 "t", "e", "m", "p", "l", "a", "t", "e">>

\* The least element of a set of indices
FirstOf(S) == CHOOSE i \in S : \A j \in S : i <= j
RsvDone == rsv.pc = "done"
Requested == TrimSpace(rsv.call.template)
IsURL(v) == \E scheme \in HttpScheme : HasPrefix(v, scheme)
IsPathLike(v) == Contains(v, <<"/">>) \/ HasPrefix(v, <<".">>) \/ HasPrefix(v, <<"~">>)
\* The calls of a run that go to the web or to the file system, in order
FetchesAndReads == SelectSeq(rsv.out.ops, LAMBDA o : o.op \in {"GET", "ReadFile"})
TrackerOps ==
    {"SupportsIssueTemplates", "TeamByKey", "ListIssueTemplatesForTeam",
     "IssueTemplateByID", "CreateIssueFromTemplate"}
OpNames == {rsv.out.ops[i].op : i \in DOMAIN rsv.out.ops}
\* An issues create run that gets as far as resolving the template named by
\* its flags: no template id, not the section-filling mode, not interactive,
\* no description given
CreateResolves ==
    /\ rsv.cmd = "create" /\ rsv.call.api.apiKey
    /\ rsv.call.templateID = <<>> /\ ~rsv.call.sections
    /\ rsv.call.noInteractive /\ rsv.call.description = <<>>
    /\ Requested # <<>>

C16_ExplicitSourceExclusive ==
    (RsvDone /\ (rsv.cmd = "preview" \/ CreateResolves)) =>
        /\ rsv.call.source = "local" => OpNames \cap ({"GET"} \cup TrackerOps) = {}
        /\ rsv.call.source = "remote" => OpNames \cap ({"ReadFile"} \cup TrackerOps) = {}
        /\ rsv.call.source = "api" => OpNames \cap {"GET", "ReadFile"} = {}

\* C17: a preview or a resolving create run with the selector api and no
\* team ends with an error, and has made no call outside before it.
C17_ApiNeedsTeamFirst ==
    (/\ RsvDone /\ (rsv.cmd = "preview" \/ CreateResolves)
     /\ rsv.call.source = "api" /\ TrimSpace(rsv.call.team) = <<>>)
        => rsv.out.err /\ rsv.out.ops = <<>>

\* C18: an issues create run given a template id, and a team that exists,
\* creates the issue by one CreateIssueFromTemplate call with that id, and
\* neither looks up the cache nor fetches, reads or lists any template.
C18_TemplateIdShortCircuits ==
    (/\ RsvDone /\ rsv.cmd = "create" /\ rsv.call.api.apiKey
     /\ TrimSpace(rsv.call.templateID) # <<>>
     /\ TrimSpace(rsv.call.team) # <<>> /\ rsv.call.api.teamFound)
        => /\ rsv.out.next = "created"
           /\ OpNames \subseteq {"interactivePickTemplate", "TeamByKey",
                                 "CreateIssueFromTemplate"}
           /\ SelectSeq(rsv.out.ops, LAMBDA o : o.op = "CreateIssueFromTemplate")
                = <<[op |-> "CreateIssueFromTemplate", arg |-> rsv.call.templateID]>>

\* The places a name is looked for, in the order of the claim: the remote
\* base when one is configured, then the explicit directory, the
\* environment's, the per-user configuration directory and ~/.config
NamePlaces ==
    LET base == IF rsv.call.baseOverride # <<>> THEN rsv.call.baseOverride
                ELSE rsv.call.w.envBase
        file == <<"/">> \o Requested \o MdSuffix
        dir(d) == <<[op |-> "ReadFile", arg |-> d \o file]>>
    IN  (IF base # <<>>
         THEN <<[op |-> "GET", arg |-> TrimRightChars(base, {"/"}) \o file]>> ELSE <<>>)
        \o (IF rsv.call.overrideDir # <<>> THEN dir(rsv.call.overrideDir) ELSE <<>>)
        \o (IF rsv.call.w.envDir # <<>> THEN dir(rsv.call.w.envDir) ELSE <<>>)
        \o (IF rsv.call.w.cfgOK THEN dir(<<"$CFG", "/linear/templates">>) ELSE <<>>)
        \o (IF rsv.call.w.cfgOK /\ rsv.call.w.homeOK
            THEN dir(<<"$HOME", "/.config/linear/templates">>) ELSE <<>>)
HasTemplate(place) ==
    IF place.op = "GET" THEN place.arg \in rsv.call.w.web
    ELSE place.arg \in rsv.call.w.fs
PlacesWithTemplate == {i \in DOMAIN NamePlaces : HasTemplate(NamePlaces[i])}

\* C19: loadTemplateContent, for a value that is neither a URL nor
\* path-like, tries the places in that order up to the first one that has
\* the template, returns that one's body, and tries no later place; when no
\* place has it, it has tried them all and returns an error.
C19_NameResolutionOrder ==
    (/\ RsvDone /\ rsv.cmd = "load"
     /\ Requested # <<>> /\ ~IsURL(Requested) /\ ~IsPathLike(Requested))
        => IF PlacesWithTemplate = {}
           THEN rsv.out.err /\ rsv.out.ops = NamePlaces
           ELSE LET first == FirstOf(PlacesWithTemplate)
                IN  /\ ~rsv.out.err
                    /\ rsv.out.ops = SubSeq(NamePlaces, 1, first)
                    /\ rsv.out.content = BodyOf(NamePlaces[first].arg)

\* C19 witness: a remote base that does not have the template, an explicit
\* directory that does not have it either, and the environment's directory
\* and the per-user one that both have it: the body is the environment's,
\* after one fetch and two reads.
C19_Witness ==
    /\ RsvDone /\ rsv.cmd = "load"
    /\ Requested = <<"b", "u", "g">>
    /\ Len(NamePlaces) = 5
    /\ PlacesWithTemplate = {3, 4}
    /\ Len(rsv.out.ops) = 3
    /\ rsv.out.content = BodyOf(<<"e", "/", "b", "u", "g">> \o MdSuffix)

PickDone == pick.pc = "done"
\* The entries whose normalized name is the normalized requested name, and
\* those whose normalized name contains it
ExactEntries ==
    {i \in DOMAIN pick.items : normalize(pick.items[i].Name) = normalize(pick.arg)}
ContainingEntries ==
    {i \in DOMAIN pick.items :
        Contains(normalize(pick.items[i].Name), normalize(pick.arg))}

ToUpper(s) ==
    [i \in DOMAIN s |->
        IF \E j \in DOMAIN Lowers : Lowers[j] = s[i]
        THEN Uppers[CHOOSE j \in DOMAIN Lowers : Lowers[j] = s[i]]
        ELSE s[i]]
TeamText == [t \in {"T1", "T2"} |-> <<"T", IF t = "T1" THEN "1" ELSE "2">>]
SyncHint == ". Run 'linear-cli templates sync --team "

\* index is the document .metadata.json (or NoMeta), dirs the team
\* directories. The value is the TemplateInfo, the body and the error.
GetLocalTemplate(teamKey, templateName, index, dirs) ==
    LET key == ToUpper(TrimSpace(teamKey))
        teams == {t \in DOMAIN TeamText : TeamText[t] = key}
        Fail(msg) == [err |-> TRUE, msg |-> msg, info |-> NoRef, content |-> <<>>]
        Read(t, template) ==
            IF fileExists(dirs[t], template.Filename)
            THEN [err |-> FALSE, msg |-> <<>>, info |-> template,
                  content |-> dirs[t][template.Filename]]
            ELSE Fail(<<"failed to read template file">>)
        Named(t, templates, keys) ==
            IF keys = {}
            THEN Fail(<<"template '">> \o templateName
                      \o <<"' not found for team ">> \o key)
            ELSE Read(t, templates[CHOOSE n \in keys : TRUE])
        InTeam(t) ==
            IF t \notin DOMAIN index.Templates
            THEN Fail(<<"no templates found for team ">> \o key
                      \o <<SyncHint>> \o key \o <<"' first">>)
            \* line 657: teamData.Templates[templateName]
            ELSE Named(t, index.Templates[t].Templates,
                       {n \in DOMAIN index.Templates[t].Templates : n = templateName})
    IN  IF ~index.exists
        THEN Fail(<<"no templates found", SyncHint>> \o teamKey \o <<"' first">>)
        ELSE IF teams = {}
        THEN Fail(<<"no templates found for team ">> \o key
                  \o <<SyncHint>> \o key \o <<"' first">>)
        ELSE InTeam(CHOOSE t \in teams : TRUE)

\* The team keys and names a lookup is made with: a cached team in other
\* letter case and untrimmed, a team never synced, and the catalog's names
\* in their own and in other letter case
LookupKeys == {<<"T", "1">>, <<" ", "t", "1">>, <<"T", "2">>}
LookupNames == Names \cup {ToLower(n) : n \in Names} \cup {ToUpper(n) : n \in Names}

\* One call of GetLocalTemplate on the cache as it is
Lookup ==
    /\ look = Idle
    /\ \E k \in LookupKeys, n \in LookupNames :
         look' = [pc |-> "done", teamKey |-> k, name |-> n,
                  out |-> GetLocalTemplate(k, n, loadTemplateMetadata, files)]
    /\ UNCHANGED <<catalog, issues, meta, files, last, fill, sect, ttl, san, rsv, pick,
                   gql, ai, procs>>

\* The lookup reads the cache that the syncs and cleans before it left
LookNext ==
    \/ look = Idle /\ Sync
    \/ look = Idle /\ CleanTeam
    \/ Lookup
LookSpec == Init /\ [][LookNext]_vars


\* ============================================================== transport
\* api client, Client.do and its guard. A GraphQL document is a sequence of
\* tokens: punctuation characters and whole words. Two words with no
\* punctuation between them read as one word.
GqlPunct == {"{", "}", "(", ")", ":", " ", "\n", "#", "...", ","}
\* regexp \bword\b for a word of `words`: a token that is one of the words,
\* with no word before or after it
WordAt(q, i, words) ==
    /\ q[i] \in words
    /\ i = 1 \/ q[i - 1] \in GqlPunct
    /\ i = Len(q) \/ q[i + 1] \in GqlPunct
isMutation(q) == \E i \in DOMAIN q : WordAt(q, i, {"mutation"})
containsDangerousOperation(q) == \E i \in DOMAIN q : WordAt(q, i, {"delete", "archive"})

\* reSelBlock, mutation[^{]*\{([^}]*)\}: from the first "mutation", the
\* text between the first "{" after it and the first "}" after that; the
\* value is <<block>>, or <<>> when nothing matches
SelBlock(q) ==
    LET Close(open, k) == IF k = 0 THEN <<>> ELSE <<SubSeq(q, open + 1, k - 1)>>
        Open(j) ==
            IF j = 0 THEN <<>>
            ELSE Close(j, FirstIndex({k \in DOMAIN q : k > j /\ q[k] = "}"}))
        From(i) ==
            IF i = 0 THEN <<>>
            ELSE Open(FirstIndex({j \in DOMAIN q : j > i /\ q[j] = "{"}))
    IN  From(FirstIndex({i \in DOMAIN q : q[i] = "mutation"}))

\* lines 171-183: the name a line of the block selects, <<>> for none
SelectionName(line) ==
    LET Cut(s, p) == IF p = 0 THEN s ELSE SubSeq(s, 1, p - 1)
        Name(s) == Cut(s, FirstIndex({i \in DOMAIN s : s[i] \in {"(", "{", " "}}))
        Unalias(s, idx, p) ==
            IF idx # 0 /\ idx < (IF p # 0 THEN p ELSE Len(s) + 1)
            THEN TrimSpace(SubSeq(s, idx + 1, Len(s))) ELSE s
        Field(s) ==
            Name(Unalias(s, FirstIndex({i \in DOMAIN s : s[i] = ":"}),
                         FirstIndex({i \in DOMAIN s : s[i] \in {"(", "{", " "}})))
        Line(s) ==
            IF s = <<>> \/ HasPrefix(s, <<"#">>) \/ HasPrefix(s, <<"...">>)
            THEN <<>> ELSE Field(s)
    IN  Line(TrimSpace(line))

mutationSelectionNames(q) ==
    LET Selected(lines) ==
            SelectSeq([i \in DOMAIN lines |-> SelectionName(lines[i])],
                      LAMBDA n : n # <<>>)
        Block(m) == IF m = <<>> THEN <<>> ELSE Selected(Split(m[1], <<"\n">>))
    IN  Block(SelBlock(q))

allowedMutations == {<<"issueCreate">>, <<"issueUpdate">>, <<"commentCreate">>}

\* Client.do: the guard, then one POST and up to three more when the
\* answer is a 429 or a 5xx or the request fails (retries of them); the
\* exchange itself ends well or with the error of the transport or the API
\* (failed)
do(query, retries, failed) ==
    LET Send == [err |-> IF failed THEN "linear api error" ELSE "",
                 posts |-> 1 + retries]
        Reject(msg) == [err |-> msg, posts |-> 0]
        Listed(names) ==
            IF names = <<>> THEN Reject("invalid mutation: no selections")
            ELSE IF \E i \in DOMAIN names : names[i] \notin allowedMutations
            THEN Reject("mutation is not allowed")
            ELSE Send
    IN  IF ~isMutation(query) THEN Send
        ELSE IF containsDangerousOperation(query)
        THEN Reject("operation rejected: delete/archive mutations are not allowed")
        ELSE Listed(mutationSelectionNames(query))

\* The documents: an operation with one or two top-level selections, each
\* with or without an alias, arguments and a sub-selection, written on one
\* line or one selection per line.
GqlFields == {"issueCreate", "commentCreate", "issueDelete", "issueArchive"}
GqlSelections ==
    [alias : BOOLEAN, field : GqlFields, args : {"none", "var", "object"}, sub : BOOLEAN]
RenderSelection(sel) ==
    (IF sel.alias THEN <<"a", ":", " ">> ELSE <<>>)
    \o <<sel.field>>
    \o (IF sel.args = "var" THEN <<"(", "id", ":", " ", "$id", ")">>
        ELSE IF sel.args = "object"
        THEN <<"(", "input", ":", " ", "{", "title", ":", " ", "$t", "}", ")">>
        ELSE <<>>)
    \o (IF sel.sub THEN <<" ", "{", " ", "id", " ", "}">> ELSE <<>>)
RenderDocument(doc) ==
    LET sep == IF doc.perLine THEN <<"\n">> ELSE <<" ">>
    IN  <<doc.op, " ", "{">> \o sep
        \o Join([i \in DOMAIN doc.sels |-> RenderSelection(doc.sels[i])], sep)
        \o sep \o <<"}">>

\* One call of Client.do
Do ==
    /\ gql.pc = "call"
    /\ \E retries \in 0..3, failed \in BOOLEAN :
         gql' = [pc |-> "done", doc |-> gql.doc, query |-> gql.query,
                 out |-> do(gql.query, retries, failed)]
    /\ UNCHANGED <<catalog, issues, meta, files, last, fill, sect, ttl, san, rsv, pick,
                   look, ai, procs>>

GqlInit ==
    /\ SyncIdle /\ fill = Idle /\ sect = Idle
    /\ ttl = Idle /\ san = Idle /\ rsv = Idle /\ pick = Idle
    /\ look = Idle /\ ai = Idle /\ procs = Idle
    /\ \E op \in {"mutation", "query"}, perLine \in BOOLEAN,
          sels \in SeqsUpTo(GqlSelections, 2) \ {<<>>} :
         LET doc == [op |-> op, perLine |-> perLine, sels |-> sels]
         IN  gql = [pc |-> "call", doc |-> doc, query |-> RenderDocument(doc)]
GqlSpec == GqlInit /\ [][Do]_vars


\* ===================================================== issues create, whole
\* cmd/issues_adv.go, issuesCreateAdvCmd after the template is resolved, for
\* runs without the interactive walkthrough: title prefix and variable
\* filling (1066-1075), team (1093-1099), preview (1121-1140), creation
\* (1238-1295). The templates drawn hold no placeholder and no section
\* heading, so filling changes nothing and no UpdateIssue follows.
issuesCreateToEnd(c) ==
    LET Op(n, a) == [op |-> n, arg |-> a]
        End(ops, next, description) ==
            [ops |-> ops, err |-> next = "error", next |-> next,
             description |-> description]
        interactive ==
            ~c.noInteractive
            /\ ~(TrimSpace(c.template) # <<>> /\ c.sections /\ TrimSpace(c.title) # <<>>)
        \* lines 1007-1010
        preview == c.previewFlag \/ (c.varsProvided /\ ~c.noPreview)
        \* lines 1238-1295
        Create(ops, description, tpl) ==
            IF TrimSpace(c.template) # <<>> /\ c.sections /\ tpl # 0
            THEN End(ops \o <<Op("TeamStates", <<>>),
                              Op("IssueTemplateByNameForTeam", c.template),
                              Op("CreateIssueAdvanced", <<>>)>>, "created", description)
            ELSE End(ops \o <<Op("TeamStates", <<>>)>>
                     \o (IF TrimSpace(c.template) # <<>> /\ c.sections
                         THEN <<Op("IssueTemplateByNameForTeam", c.template)>> ELSE <<>>)
                     \o <<Op("SupportsIssueCreateTemplateId", <<>>)>>
                     \o (IF /\ c.api.supports /\ TrimSpace(description) = <<>>
                            /\ TrimSpace(c.template) # <<>>
                         THEN <<Op("IssueTemplateByNameForTeam", c.template)>> ELSE <<>>)
                     \o <<Op("CreateIssueAdvanced", description)>>,
                     "created", description)
        \* lines 1121-1140
        Preview(ops, description) ==
            IF preview /\ TrimSpace(description) # <<>> /\ ~c.yes
            THEN End(ops, "previewed", description)
            ELSE IF interactive THEN End(ops, "walkthrough", description)
            ELSE Create(ops, description,
                        IssueTemplateByNameForTeam(c.api.items, c.template))
        \* lines 1093-1099
        Team(ops, description) ==
            IF TrimSpace(c.team) = <<>> THEN End(ops, "error", description)
            ELSE IF ~c.api.teamFound
            THEN End(ops \o <<Op("TeamByKey", TrimSpace(c.team))>>, "error", description)
            ELSE Preview(ops \o <<Op("TeamByKey", TrimSpace(c.team))>>, description)
        \* lines 1043, 1066-1075
        Filled(r) ==
            IF /\ ~interactive /\ TrimSpace(c.description) = <<>>
               /\ TrimSpace(c.template) # <<>>
            THEN Team(r.ops, fillTemplate(parseTitlePrefixAndStrip(r.body).body,
                                          EmptyMap, FALSE, FALSE,
                                          <<>>, <<>>, <<>>).content)
            ELSE Team(r.ops, c.description)
        Resolved(r) ==
            IF r.next = "continue" THEN Filled(r) ELSE End(r.ops, r.next, <<>>)
    IN  Resolved(issuesCreateAdvCmd(c))

\* One run of issues create, to its end
IssuesCreateRun ==
    /\ rsv.pc = "run"
    /\ rsv' = [pc |-> "done", cmd |-> "run", call |-> rsv,
               out |-> issuesCreateToEnd(rsv)]
    /\ UNCHANGED <<catalog, issues, meta, files, last, fill, sect, ttl, san, pick,
                   look, gql, ai, procs>>

\* The runs: every combination of the flags that decide the path, with a
\* team that exists, a template file that is there and a tracker that has,
\* or has not, a template of the name
CreateInit ==
    /\ SyncIdle /\ fill = Idle /\ sect = Idle
    /\ ttl = Idle /\ san = Idle /\ pick = Idle
    /\ look = Idle /\ gql = Idle /\ ai = Idle /\ procs = Idle
    /\ \E tpl \in {<<>>, <<"b", "u", "g">>}, t \in {<<>>, <<"T">>},
          id \in {<<>>, <<"i", "d">>}, ti \in {<<>>, <<"t">>}, d \in {<<>>, <<"d">>},
          sec \in BOOLEAN, ni \in BOOLEAN, listed \in BOOLEAN,
          pv \in [previewFlag : BOOLEAN, noPreview : BOOLEAN,
                  varsProvided : BOOLEAN, yes : BOOLEAN] :
         rsv = [pc |-> "run", source |-> "auto", template |-> tpl, team |-> t,
                templateID |-> id, title |-> ti, description |-> d,
                sections |-> sec, noInteractive |-> ni,
                previewFlag |-> pv.previewFlag, noPreview |-> pv.noPreview,
                varsProvided |-> pv.varsProvided, yes |-> pv.yes,
                overrideDir |-> <<"o">>, baseOverride |-> <<>>,
                w |-> [web |-> {}, fs |-> {<<"o", "/", "b", "u", "g">> \o MdSuffix},
                       envBase |-> <<>>, envDir |-> <<>>,
                       cfgOK |-> TRUE, homeOK |-> TRUE],
                api |-> [apiKey |-> TRUE, supports |-> TRUE, teamFound |-> TRUE,
                         idHit |-> FALSE, byID |-> {},
                         items |-> IF listed
                                   THEN <<[ID |-> <<"t", "1">>, Name |-> <<"b", "u", "g">>,
                                           Description |-> <<"D">>]>>
                                   ELSE <<>>]]
CreateSpec == CreateInit /\ [][IssuesCreateRun]_vars


\* ===================================================== AI-friendly creation
\* cmd/issues_adv.go, createIssueAIFriendly (1976-2100). c is the call:
\* teamKey, template, title, sections (the --sections map, not empty in this
\* mode), and what the tracker answers: createFail makes the issueCreate
\* mutation fail. env is what the collaborators of the auto-sync do.

\* An auto-sync on every run, to compare against
needsAutoSyncAlways(first) == TRUE

\* line 1988: the test that decides on the auto-sync
needsAutoSync(first) == first.err

\* client.TeamByKey(strings.ToUpper(strings.TrimSpace(teamKey))), 1978-1984
TeamByKey(teamKey) ==
    {t \in Teams : TeamText[t] = ToUpper(TrimSpace(teamKey))}

\* The remote calls of one syncTeamTemplatesIntelligent, as the auto-sync
\* makes them: the catalog listing, then the reference record queries and
\* creations of the templates it extracts
SyncCalls(obs) ==
    <<"ListIssueTemplatesForTeam">>
    \o (IF obs.fetchTried # {} THEN <<"GetIssue">> ELSE <<>>)
    \o (IF obs.created # {} THEN <<"CreateIssue">> ELSE <<>>)

\* md0 is the index as the run reads it. The value: the index the run holds
\* at its end and whether it saved it (md, saved), the team directories
\* and the tracker's records as it leaves them (dirs, iss), the calls in
\* their order (trace), the error, and the JSON result
createIssueAIFriendly(c, env, md0, dirs0, iss0) ==
    LET Out(md, dirs, iss, trace, msg, json) ==
            [md |-> md, saved |-> "saveTemplateMetadata" \in Range(trace),
             dirs |-> dirs, iss |-> iss, trace |-> trace,
             err |-> msg # "", msg |-> msg, json |-> json]
        NoJSON == [success |-> FALSE]
        \* lines 2056-2097; err is the function's variable, last assigned by
        \* CreateIssueAdvanced (2069)
        Create(md, dirs, iss, trace, info, body) ==
            LET err == c.createFail
                prefilled == IF body = <<>> THEN <<>>
                             ELSE <<[body |-> body, sections |-> c.sections]>>
            IN  IF err
                THEN Out(md, dirs, iss, trace \o <<"CreateIssueAdvanced">>,
                         "failed to create issue", NoJSON)
                ELSE Out(md, dirs, iss, trace \o <<"CreateIssueAdvanced">>, "",
                         [success |-> TRUE,
                          created |-> [TeamID |-> TeamID[c.team],
                                       TemplateID |-> info.ID, Title |-> c.title,
                                       Priority |-> 3, Description |-> prefilled],
                          template |-> [name |-> info.Name, id |-> info.ID],
                          sections_filled |-> Cardinality(DOMAIN c.sections),
                          auto_synced |-> err])
        \* lines 2044-2054
        Again(md, dirs, iss, trace, info, again) ==
            IF again.err
            THEN Out(md, dirs, iss, trace, "failed to get local template content", NoJSON)
            ELSE Create(md, dirs, iss, trace, info, again.content)
        Prefill(md, dirs, iss, trace, info) ==
            IF DOMAIN c.sections # {}
            THEN Again(md, dirs, iss, trace \o <<"GetLocalTemplate">>, info,
                       GetLocalTemplate(c.teamKey, c.template, md, dirs))
            ELSE Again(md, dirs, iss, trace, info, [err |-> FALSE, content |-> <<>>])
        \* lines 2022-2038
        Retry(md, dirs, iss, trace, second) ==
            IF second.err
            THEN Out(md, dirs, iss, trace,
                     "template not found for team. Available templates", NoJSON)
            ELSE Prefill(md, dirs, iss, trace, second.info)
        Saved(md, dirs, iss, trace) ==
            Retry(md, dirs, iss, trace \o <<"GetLocalTemplate">>,
                  GetLocalTemplate(c.teamKey, c.template, md, dirs))
        \* lines 1992-2013
        AfterSync(t, trace, r) ==
            IF r.res.err
            THEN Out(md0, dirs0, iss0, trace \o SyncCalls(r.obs),
                     "failed to auto-sync templates", NoJSON)
            ELSE Saved(MetaDoc(r.md, Now), [dirs0 EXCEPT ![t] = r.dir], r.iss,
                       trace \o SyncCalls(r.obs) \o <<"saveTemplateMetadata">>)
        AutoSync(t, trace) ==
            AfterSync(t, trace,
                   syncTeamTemplatesIntelligent(
                       IF md0.exists THEN md0.Templates ELSE EmptyMap,
                       dirs0[t], iss0, t, env))
        \* lines 1986-1988
        Found(t, first) ==
            IF needsAutoSync(first)
            THEN AutoSync(t, <<"TeamByKey", "GetLocalTemplate">>)
            ELSE Prefill(md0, dirs0, iss0,
                         <<"TeamByKey", "GetLocalTemplate">>, first.info)
    IN  IF TeamByKey(c.teamKey) = {}
        THEN Out(md0, dirs0, iss0, <<"TeamByKey">>, "team not found", NoJSON)
        ELSE Found(c.team, GetLocalTemplate(c.teamKey, c.template, md0, dirs0))

\* The calls: the key of the team, untrimmed and in lower case, or of a team
\* the tracker does not have; a name of the catalog in its own or in lower
\* case
AIKeys == {<<" ", "t", "1">>, <<"T", "2">>}
AINames == {NameAB, NameSp, ToLower(NameSp)}
AISections == {(<<"A">> :> <<"c">>)}

\* One run of `issues create --template n --sections ... --title t --team k`
\* on the cache and the tracker as they are
AIRun ==
    /\ ai = Idle
    /\ \E k \in AIKeys, n \in AINames, cf \in BOOLEAN :
       \E t \in (IF TeamByKey(k) = {} THEN Teams ELSE TeamByKey(k)) :
       \E env \in Envs(Pending(t), CachedRefs(t)) :
       \E c \in {[teamKey |-> k, team |-> t, template |-> n, title |-> <<"t">>,
                   sections |-> CHOOSE m \in AISections : TRUE, createFail |-> cf]} :
       \E first \in {GetLocalTemplate(k, n, loadTemplateMetadata, files)} :
       \E out \in {createIssueAIFriendly(c, env, loadTemplateMetadata, files, issues)} :
             /\ out.iss <= MaxIssues
             /\ meta' = IF out.saved THEN out.md ELSE meta
             /\ files' = out.dirs
             /\ issues' = out.iss
             /\ ai' = [pc |-> "done", call |-> c, teamFound |-> TeamByKey(k) # {},
                       first |-> first, trace |-> out.trace, err |-> out.err,
                       msg |-> out.msg, json |-> out.json,
                       before |-> [meta |-> meta, files |-> files, issues |-> issues]]
    /\ last' = NoCmd
    /\ UNCHANGED <<catalog, fill, sect, ttl, san, rsv, pick, look, gql, procs>>

\* The run works on the cache that the syncs and cleans before it left
AINext ==
    \/ ai = Idle /\ Sync
    \/ ai = Idle /\ CleanTeam
    \/ AIRun
AISpec == Init /\ [][AINext]_vars


\* ======================================================== interrupted sync
\* cmd/templates.go, templatesSyncCmd for one team, killed before line 150:
\* the index is written once, by saveTemplateMetadata at the end of the
\* command (148-153); the body files, the reference records and the removals
\* of syncTeamTemplatesIntelligent (475-501) happen before it, one template
\* at a time.
AllWell == [listDown |-> FALSE, mkdirFail |-> FALSE, fetchFail |-> {},
            createFail |-> {}, writeFail |-> {}]

\* What the run has done when it is killed: the first k templates of the
\* new and updated ones in full, of the next one the reference record but not
\* yet the file (half), and, once all are through, the files of some of the
\* removed templates (gone)
KilledAt(t, md0, k, half, gone) ==
    LET listed == syncTeamTemplatesIntelligent(md0, files[t], issues, t, AllWell)
        Work(obs) == obs.new \o obs.updated
        Half(w, work) ==
            IF half
            THEN syncSingleTemplate(w, t, work[k + 1],
                                    [AllWell EXCEPT !.writeFail = {work[k + 1].Name}])
            ELSE w
        Partial(work, removed, w0) ==
            IF k > Len(work) \/ (half /\ k = Len(work))
               \/ ~(gone \subseteq removed) \/ (gone # {} /\ k < Len(work))
            THEN [ok |-> FALSE]
            ELSE [ok |-> TRUE,
                  w |-> RemoveOld(Half(SyncEach(w0, t, SubSeq(work, 1, k), AllWell), work),
                                  gone)]
        Started(r) ==
            IF r.res.SkipReason # ""
            THEN [ok |-> k = 0 /\ ~half /\ gone = {},
                  w |-> [dir |-> files[t], iss |-> issues]]
            ELSE Partial(Work(r.obs), r.obs.removed,
                         [tt |-> [(IF t \in DOMAIN md0 THEN md0[t] ELSE NewTeamTemplates(t))
                                    EXCEPT !.LastSync = Now],
                          dir |-> files[t], iss |-> issues,
                          created |-> {}, fetchTried |-> {}, fetched |-> {},
                          wrote |-> {}, upserted |-> {}, failed |-> {}])
    IN  Started(listed)

\* `templates sync --team t`, killed before the index is saved
SyncKilled ==
    /\ last.cmd # "killed"
    /\ \E t \in Teams, k \in 0..MaxCatalog, half \in BOOLEAN, gone \in SUBSET Names :
       \E at \in {KilledAt(t, IF loadTemplateMetadata.exists
                              THEN loadTemplateMetadata.Templates ELSE EmptyMap,
                           k, half, gone)} :
         /\ at.ok
         /\ at.w.iss <= MaxIssues
         /\ files' = [files EXCEPT ![t] = at.w.dir]
         /\ issues' = at.w.iss
         /\ last' = [cmd |-> "killed", teams |-> <<t>>,
                     before |-> [meta |-> meta, files |-> files, issues |-> issues]]
    /\ UNCHANGED <<catalog, meta, fill, sect, ttl, san, rsv, pick, look, gql, ai, procs>>

\* The same command run again to its end, lines 95-153
SyncAfterKill ==
    /\ last.cmd = "killed"
    /\ \E teams \in {last.teams} :
       \E env \in Envs(UNION {Pending(t) : t \in Range(teams)},
                       UNION {CachedRefs(t) : t \in Range(teams)}) :
       \E done \in {SyncTeams([md |-> IF loadTemplateMetadata.exists
                                      THEN loadTemplateMetadata.Templates ELSE EmptyMap,
                               files |-> files, iss |-> issues, rep |-> EmptyMap],
                              teams, env)} :
         /\ done.iss <= MaxIssues
         /\ meta' = MetaDoc(done.md, Now)
         /\ files' = done.files
         /\ issues' = done.iss
         /\ last' = [cmd |-> "sync", teams |-> teams, rep |-> done.rep, after |-> last.cmd]
    /\ UNCHANGED <<catalog, fill, sect, ttl, san, rsv, pick, look, gql, ai, procs>>

\* Every sync is killed any number of times before it runs to its end
ResumeNext ==
    \/ RemoteChange
    \/ SyncKilled
    \/ SyncAfterKill
ResumeSpec == Init /\ [][ResumeNext]_vars


\* ================================================= overlapping invocations
\* cmd/templates.go: two invocations on one cache directory, the first on
\* team T1 and the second on team T2. `templates sync --team t` loads the
\* index (103), syncs the team on the loaded copy and saves the copy
\* (148-153); `templates clean --team t` removes the team directory (281),
\* loads the index, deletes the team's entry and saves (285-291). Nothing
\* locks the index between a load and the save that follows it.
MaxRounds == 2      \* pairs of invocations per behaviour
Procs == {1, 2}
ProcTeam == <<"T1", "T2">>
ConcCatalogs == {<<>>, <<[ID |-> "i4", Name |-> NameSp]>>}
ConcEnvs == {AllWell, [AllWell EXCEPT !.listDown = TRUE]}

\* A save that would keep the entries that other teams have on disk, to
\* compare against
saveTemplateMetadataMerged(doc, disk) ==
    IF ~disk.exists THEN doc
    ELSE [doc EXCEPT !.Templates =
            [t \in DOMAIN doc.Templates \cup DOMAIN disk.Templates |->
                IF t \in DOMAIN doc.Templates
                THEN doc.Templates[t] ELSE disk.Templates[t]]]

\* saveTemplateMetadata, lines 378-387: os.WriteFile of the whole document
saveTemplateMetadata(doc, disk) == doc

Started(p, rec) ==
    procs' = [procs EXCEPT !.inv[p] = rec, !.log = Append(@, <<"load", p>>)]
Ended(p, doc) ==
    procs' = [procs EXCEPT !.inv[p] = [@ EXCEPT !.pc = "done"] @@ [saved |-> doc],
                           !.log = Append(@, <<"save", p>>)]

\* templatesSyncCmd lines 98-109: the index is loaded, or a new one made
SyncLoad(p) ==
    /\ procs.inv[p].pc = "idle"
    /\ Started(p, [pc |-> "loaded", kind |-> "sync", loaded |-> loadTemplateMetadata])
    /\ UNCHANGED <<catalog, issues, meta, files, last, fill, sect, ttl, san, rsv, pick,
                   look, gql, ai>>

\* templatesSyncCmd lines 132-153: the team is synced and the index saved
SyncSave(p) ==
    /\ procs.inv[p].pc = "loaded" /\ procs.inv[p].kind = "sync"
    /\ \E env \in ConcEnvs :
       \E r \in {syncTeamTemplatesIntelligent(
                    IF procs.inv[p].loaded.exists
                    THEN procs.inv[p].loaded.Templates ELSE EmptyMap,
                    files[ProcTeam[p]], issues, ProcTeam[p], env)} :
         /\ r.iss <= MaxIssues
         /\ files' = [files EXCEPT ![ProcTeam[p]] = r.dir]
         /\ issues' = r.iss
         /\ meta' = saveTemplateMetadata(MetaDoc(r.md, Now), meta)
         /\ Ended(p, MetaDoc(r.md, Now))
    /\ last' = NoCmd
    /\ UNCHANGED <<catalog, fill, sect, ttl, san, rsv, pick, look, gql, ai>>

\* templatesCleanCmd lines 277-286: the team directory goes, the index is
\* loaded; without an index the command is over
CleanLoad(p) ==
    /\ procs.inv[p].pc = "idle"
    /\ files' = [files EXCEPT ![ProcTeam[p]] = EmptyMap]
    /\ Started(p, [pc |-> IF loadTemplateMetadata.exists THEN "loaded" ELSE "done",
                   kind |-> "clean", loaded |-> loadTemplateMetadata])
    /\ last' = NoCmd
    /\ UNCHANGED <<catalog, issues, meta, fill, sect, ttl, san, rsv, pick, look, gql, ai>>

\* templatesCleanCmd lines 287-290: the team's entry is deleted, the index saved
CleanSave(p) ==
    /\ procs.inv[p].pc = "loaded" /\ procs.inv[p].kind = "clean"
    /\ \E doc \in {[procs.inv[p].loaded EXCEPT !.Templates = MapDel(@, {ProcTeam[p]})]} :
         /\ meta' = saveTemplateMetadata(doc, meta)
         /\ Ended(p, doc)
    /\ last' = NoCmd
    /\ UNCHANGED <<catalog, issues, files, fill, sect, ttl, san, rsv, pick, look, gql, ai>>

\* Both invocations are over; the next two start
NextRound ==
    /\ \A p \in Procs : procs.inv[p].pc = "done"
    /\ procs.round < MaxRounds
    /\ procs' = [round |-> procs.round + 1, log |-> <<>>,
                 inv |-> [p \in Procs |-> [pc |-> "idle"]]]
    /\ UNCHANGED <<catalog, issues, meta, files, last, fill, sect, ttl, san, rsv, pick,
                   look, gql, ai>>

ConcInit ==
    /\ catalog \in [{"T1", "T2"} -> ConcCatalogs]
    /\ issues = 0
    /\ meta = NoMeta
    /\ files = [t \in {"T1", "T2"} |-> EmptyMap]
    /\ last = NoCmd
    /\ fill = Idle /\ sect = Idle /\ ttl = Idle /\ san = Idle /\ rsv = Idle
    /\ pick = Idle /\ look = Idle /\ gql = Idle /\ ai = Idle
    /\ procs = [round |-> 1, log |-> <<>>, inv |-> [p \in Procs |-> [pc |-> "idle"]]]
ConcNext ==
    \/ \E p \in Procs : SyncLoad(p)
    \/ \E p \in Procs : SyncSave(p)
    \/ \E p \in Procs : CleanLoad(p)
    \/ \E p \in Procs : CleanSave(p)
    \/ NextRound
ConcSpec == ConcInit /\ [][ConcNext]_vars

\* ------------------------------------------------------ claims C21 to C30
LookDone == look.pc = "done"
\* The team a lookup's key stands for, and the names cached for it
LookTeams == {t \in DOMAIN TeamText : TeamText[t] = ToUpper(TrimSpace(look.teamKey))}
CachedFor(t) ==
    IF meta.exists /\ t \in DOMAIN meta.Templates
    THEN DOMAIN meta.Templates[t].Templates ELSE {}

\* C21: a GetLocalTemplate call that finds no index, no entry for the team
\* or no template of that name in the team's entry returns an error whose
\* message tells to run `templates sync --team` for the team.
C21_MissHasSyncHint ==
    (LookDone /\ \A t \in LookTeams : look.name \notin CachedFor(t))
        => /\ look.out.err
           /\ Contains(look.out.msg, <<SyncHint>>)

\* C22: when the team's entry holds a template whose name differs from the
\* requested one at most in letter case, and its body file is there, the
\* call returns that template and the content of its file.
C22_LookupIgnoresCase ==
    LookDone =>
        \A t \in LookTeams : \A n \in CachedFor(t) :
            (/\ ToLower(n) = ToLower(look.name)
             /\ fileExists(files[t], meta.Templates[t].Templates[n].Filename))
                => /\ ~look.out.err
                   /\ look.out.info.Name = n
                   /\ look.out.content = files[t][meta.Templates[t].Templates[n].Filename]

GqlDone == gql.pc = "done"
\* The errors of the guard of Client.do
GuardErrors ==
    {"operation rejected: delete/archive mutations are not allowed",
     "invalid mutation: no selections", "mutation is not allowed"}
\* The top-level selections of a document, and whether it deletes or archives
TopLevelFields == {gql.doc.sels[i].field : i \in DOMAIN gql.doc.sels}
Destructive == TopLevelFields \cap {"issueDelete", "issueArchive"} # {}

\* C23: a mutation is sent only when it holds no delete or archive
\* operation and every top-level selection is on the allow-list; a mutation
\* that is not sent ends with the guard's error, and with that error no
\* request is sent.
C23_GuardedTransport ==
    (GqlDone /\ gql.doc.op = "mutation") =>
        /\ gql.out.posts > 0 =>
              /\ ~Destructive
              /\ \A f \in TopLevelFields : <<f>> \in allowedMutations
        /\ gql.out.err \in GuardErrors => gql.out.posts = 0
        /\ gql.out.posts = 0 => gql.out.err \in GuardErrors

\* The preview is in effect for a run: --preview, or variables given
\* without --no-preview
PreviewInEffect ==
    rsv.call.previewFlag \/ (rsv.call.varsProvided /\ ~rsv.call.noPreview)

\* C25: an issues create run with the preview in effect and without --yes
\* makes no call that creates or updates an issue, and does not go on to
\* createIssueAIFriendly, which creates one.
C25_PreviewDoesNotCreate ==
    (/\ rsv.pc = "done" /\ rsv.cmd = "run"
     /\ PreviewInEffect /\ ~rsv.call.yes)
        => /\ \A i \in DOMAIN rsv.out.ops :
                rsv.out.ops[i].op \notin {"CreateIssueFromTemplate",
                                          "CreateIssueAdvanced", "UpdateIssue"}
           /\ rsv.out.next \notin {"created", "createIssueAIFriendly"}

\* The last command synced team t while the listing of its catalog failed:
\* the tracker holds templates for the team and the sync received none
ListingFailed(t) ==
    Synced(t) /\ catalog[t] # <<>> /\ last.rep[t].obs.templates = <<>>

\* C24: a team sync whose listing of the remote catalog failed returns an
\* error, not a skip with "No templates found" or any other result.
C24_RemoteErrorPropagates ==
    \A t \in Teams :
        ListingFailed(t) => /\ last.rep[t].res.err
                            /\ last.rep[t].res.SkipReason = ""

AIDone == ai.pc = "done"
\* The places of a call in the run's trace
CallsOf(op) == {i \in DOMAIN ai.trace : ai.trace[i] = op}
\* The run looked the template up and did not find it in the cache
FirstLookupFailed == AIDone /\ ai.teamFound /\ ai.first.err
FirstLookupHit == AIDone /\ ai.teamFound /\ ~ai.first.err
AutoSynced == AIDone /\ CallsOf("ListIssueTemplatesForTeam") # {}
AutoSyncReturned == AIDone /\ CallsOf("saveTemplateMetadata") # {}

C30_AutoSyncedReported ==
    (AIDone /\ ai.json.success) =>
        (ai.json.auto_synced <=> (FirstLookupFailed /\ AutoSynced))

\* C29: filling several sections gives the same document for every order
\* in which the entries of the sections map are applied.
C29_FillOrderIndependent ==
    SectDone =>
        \A order \in Perms(DOMAIN sect.sections) :
            fillTemplateSectionsDynamically(sect.body, sect.sections, order) = sect.out

\* The last command is a complete sync of team t that followed a killed one,
\* got the catalog and had no extraction fail
ResumedWell(t) ==
    /\ Synced(t) /\ "after" \in DOMAIN last
    /\ ~last.rep[t].res.err
    /\ last.rep[t].obs.templates = catalog[t]
    /\ last.rep[t].obs.failed = {}
\* Entry i of team t's catalog is cached with the remote id and its body file
CachedWithFile(t, i) ==
    /\ meta.exists /\ t \in DOMAIN meta.Templates
    /\ catalog[t][i].Name \in DOMAIN meta.Templates[t].Templates
    /\ meta.Templates[t].Templates[catalog[t][i].Name].ID = catalog[t][i].ID
    /\ fileExists(files[t], meta.Templates[t].Templates[catalog[t][i].Name].Filename)

\* C27: a sync killed before the index is saved leaves the index as it was,
\* and a complete sync after it, against the same catalog and with every
\* extraction succeeding, ends with every remote template in the index with
\* the remote id and with its body file on disk.
C27_ResumableSync ==
    /\ last.cmd = "killed" => meta = last.before.meta
    /\ \A t \in Teams :
          ResumedWell(t) => \A i \in DOMAIN catalog[t] : CachedWithFile(t, i)

\* The place of an event in the log of the round, 0 when it is not there
LogPos(e) ==
    IF \E i \in DOMAIN procs.log : procs.log[i] = e
    THEN CHOOSE i \in DOMAIN procs.log : procs.log[i] = e ELSE 0
BothOver == \A p \in Procs : procs.inv[p].pc = "done"
Savers == {p \in Procs : LogPos(<<"save", p>>) > 0}
\* Both invocations loaded before either saved
Overlapped ==
    \A p \in Procs, q \in Savers : LogPos(<<"load", p>>) < LogPos(<<"save", q>>)
LastSaver ==
    CHOOSE p \in Savers : \A q \in Savers : LogPos(<<"save", q>>) <= LogPos(<<"save", p>>)
\* The entry of team t in an index document
TeamEntry(m, t) ==
    IF m.exists /\ t \in DOMAIN m.Templates THEN <<m.Templates[t]>> ELSE <<>>

\* C28: when two invocations on different teams overlap, the index on disk
\* after both are over is the document of the one that saved last, and the
\* team of the other has in it the entry it had when the other loaded the
\* index: what the other did to its team's entry is not in it.
C28_LastWriterWins ==
    (BothOver /\ Overlapped /\ Savers # {}) =>
        /\ meta = procs.inv[LastSaver].saved
        /\ \A o \in Procs \ {LastSaver} :
              TeamEntry(meta, ProcTeam[o]) = TeamEntry(procs.inv[o].loaded, ProcTeam[o])

\* Two overlapping invocations that both saved, the first having changed its
\* team's entry
C28_Witness ==
    /\ BothOver /\ Overlapped /\ Savers = Procs
    /\ \E o \in Procs \ {LastSaver} :
          TeamEntry(procs.inv[o].saved, ProcTeam[o])
              # TeamEntry(procs.inv[o].loaded, ProcTeam[o])
====
